---- MODULE Spec2Model ----
(***************************************************************************)
(* Model of ddtrace/tracer/spancontext.go: the trace buffer shared by the  *)
(* spans of one trace (push, finishedOne, sampling priority, sampling      *)
(* decision, trace-level tags) together with the helpers it calls.         *)
(***************************************************************************)
EXTENDS Integers, Sequences, FiniteSets, TLC

----------------------------------------------------------------------------
(* Bounds of the model *)

\* number of spans that are started on the trace
MaxSpans == 3
\* largest PartialFlushMinSpans the tracer configuration is drawn from
MaxMinSpans == 2

(* Program constants *)

decisionNone == 0
decisionDrop == 1
decisionKeep == 2

\* a nil *Span
NoSpan == 0

\* samplernames.Unknown and two samplers that are not Unknown
Unknown == -1
AgentRate == 1
RuleRate == 3

keySamplingPriority == "_sampling_priority_v1"
keyDecisionMaker == "_dd.p.dm"
keyTraceID128 == "_dd.p.tid"
keyProcessTags == "_dd.tags.process"
keyBaseService == "_dd.base_service"
keyPeerServiceSource == "_dd.peer.service.source"
keyPeerServiceRemappedFrom == "_dd.peer.service.remapped_from"

\* package ext
TargetHost == "out.host"
NetworkDestinationName == "network.destination.name"
SpanKind == "span.kind"
PeerService == "peer.service"
PeerHostname == "peer.hostname"
SpanKindClient == "client"
SpanKindProducer == "producer"
DBSystem == "db.system"
DBSystemCassandra == "cassandra"
CassandraContactPoints == "db.cassandra.contact.points"
DBName == "db.name"
DBInstance == "db.instance"
MessagingSystem == "messaging.system"
KafkaBootstrapServers == "messaging.kafka.bootstrap.servers"
RPCSystem == "rpc.system"
RPCService == "rpc.service"

----------------------------------------------------------------------------
(* Inputs *)

SpanIds == 1..MaxSpans
\* sampling priorities passed to setSamplingPriority or carried by a span
Priorities == {0, 1}
SamplerNames == {Unknown, AgentRate, RuleRate}
\* trace-level tags set with trace.setTag
TagKeys == {"_dd.hostname"}
TagVals == {"h1"}
\* traceMaxSize is a package variable, int(1e5) unless it is reassigned; the
\* model draws it from sizes that the spans of the model can reach and exceed
MaxSizes == {MaxSpans - 1, MaxSpans}

\* a Go map is a function whose domain is the set of keys present
EmptyMap == <<>>

\* a nil pointer is the empty sequence, a pointer to v is <<v>>
NilPtr == <<>>
Ptr(v) == <<v>>
Deref(p) == p[1]

----------------------------------------------------------------------------
(* traceID: 16 bytes, big endian, <upper><lower> *)

HexDigits == <<"0", "1", "2", "3", "4", "5", "6", "7",
               "8", "9", "a", "b", "c", "d", "e", "f">>

\* hex.EncodeToString
RECURSIVE HexEncodeToString(_)
HexEncodeToString(bs) ==
    IF bs = <<>> THEN ""
    ELSE HexDigits[(bs[1] \div 16) + 1] \o HexDigits[(bs[1] % 16) + 1]
         \o HexEncodeToString(Tail(bs))

\* HasUpper that looks at all the bytes
HasUpper_AnyByte(t) == \E i \in 1..Len(t) : t[i] # 0

HasUpper(t) == \E i \in 1..8 : t[i] # 0

UpperHex(t) == HexEncodeToString(SubSeq(t, 1, 8))

ZeroUpper == <<0, 0, 0, 0, 0, 0, 0, 0>>
\* <32-bit unix seconds><32 zero bits>
TimeUpper == <<101, 74, 27, 44, 0, 0, 0, 0>>
LowerBytes == <<0, 0, 0, 0, 0, 0, 48, 57>>

----------------------------------------------------------------------------
(* Span maps *)

has(m, tag) == tag \in DOMAIN m

\* Span.setMeta, restricted to the meta map
setMeta(m, k, v) == [x \in (DOMAIN m) \cup {k} |-> IF x = k THEN v ELSE m[x]]

\* successive setMeta calls for every entry of f
setMetaAll(m, f) ==
    [x \in (DOMAIN m) \cup (DOMAIN f) |-> IF x \in DOMAIN f THEN f[x] ELSE m[x]]

\* delete(m, k)
deleteKey(m, k) == [x \in (DOMAIN m) \ {k} |-> m[x]]

----------------------------------------------------------------------------
(* Peer-service resolution *)

NetworkSources == <<NetworkDestinationName, PeerHostname, TargetHost>>

\* the candidate list with the network fallback kept for cassandra
PeerServiceSources_CassandraFallback(m) ==
    IF has(m, "aws_service")
        THEN <<"queuename", "topicname", "streamname", "tablename", "bucketname">>
             \o NetworkSources
    ELSE IF has(m, DBSystem) /\ m[DBSystem] = DBSystemCassandra
        THEN <<CassandraContactPoints>> \o NetworkSources
    ELSE IF has(m, DBSystem)
        THEN <<DBName, DBInstance>> \o NetworkSources
    ELSE IF has(m, MessagingSystem)
        THEN <<KafkaBootstrapServers>> \o NetworkSources
    ELSE IF has(m, RPCSystem)
        THEN <<RPCService>> \o NetworkSources
    ELSE NetworkSources

\* the candidate list built by the switch of setPeerServiceFromSource
PeerServiceSources(m) ==
    IF has(m, "aws_service")
        THEN <<"queuename", "topicname", "streamname", "tablename", "bucketname">>
             \o NetworkSources
    ELSE IF has(m, DBSystem) /\ m[DBSystem] = DBSystemCassandra
        THEN <<CassandraContactPoints>>
    ELSE IF has(m, DBSystem)
        THEN <<DBName, DBInstance>> \o NetworkSources
    ELSE IF has(m, MessagingSystem)
        THEN <<KafkaBootstrapServers>> \o NetworkSources
    ELSE IF has(m, RPCSystem)
        THEN <<RPCService>> \o NetworkSources
    ELSE NetworkSources

\* a loop over the sources that does not return at the first tag it finds
RECURSIVE FirstPresent_LastWins(_, _)
FirstPresent_LastWins(m, sources) ==
    IF sources = <<>> THEN ""
    ELSE LET later == FirstPresent_LastWins(m, Tail(sources))
         IN  IF later # "" THEN later
             ELSE IF has(m, sources[1]) THEN sources[1] ELSE ""

\* the loop of lines 674-679: the first source that is a tag of the span
RECURSIVE FirstPresent(_, _)
FirstPresent(m, sources) ==
    IF sources = <<>> THEN ""
    ELSE IF has(m, sources[1]) THEN sources[1]
    ELSE FirstPresent(m, Tail(sources))

\* setPeerServiceFromSource: the new meta map and the returned source
setPeerServiceFromSource(m) ==
    LET source == FirstPresent(m, PeerServiceSources(m))
    IN  IF source = "" THEN [meta |-> m, source |-> ""]
        ELSE [meta |-> setMeta(m, PeerService, m[source]), source |-> source]

\* a remapping that follows the table until the value is no key of it
RECURSIVE remapPeerService_Transitive(_, _)
remapPeerService_Transitive(m, peerServiceMappings) ==
    LET ps == IF has(m, PeerService) THEN m[PeerService] ELSE ""
    IN  IF has(peerServiceMappings, ps)
        THEN remapPeerService_Transitive(
                 setMeta(setMeta(m, keyPeerServiceRemappedFrom, ps),
                         PeerService, peerServiceMappings[ps]),
                 deleteKey(peerServiceMappings, ps))
        ELSE m

\* the remapping at the end of setPeerService
remapPeerService(m, peerServiceMappings) ==
    LET ps == IF has(m, PeerService) THEN m[PeerService] ELSE ""
    IN  IF has(peerServiceMappings, ps)
        THEN setMeta(setMeta(m, keyPeerServiceRemappedFrom, ps),
                     PeerService, peerServiceMappings[ps])
        ELSE m

\* setPeerService that returns early on a span that is not outbound, before
\* it looks for an existing peer.service tag
setPeerService_OutboundOnly(m, peerServiceDefaults, peerServiceMappings) ==
    LET spanKind == IF has(m, SpanKind) THEN m[SpanKind] ELSE ""
        isOutboundRequest == spanKind = SpanKindClient \/ spanKind = SpanKindProducer
        r == setPeerServiceFromSource(m)
    IN  IF ~(isOutboundRequest /\ peerServiceDefaults) THEN m
        ELSE IF has(m, PeerService)
        THEN remapPeerService(setMeta(m, keyPeerServiceSource, PeerService),
                              peerServiceMappings)
        ELSE IF r.source = "" THEN m
        ELSE remapPeerService(setMeta(r.meta, keyPeerServiceSource, r.source),
                              peerServiceMappings)

\* setPeerService that resolves a source whether or not the defaults are enabled
setPeerService_IgnoreDefaults(m, peerServiceDefaults, peerServiceMappings) ==
    IF has(m, PeerService)
    THEN remapPeerService(setMeta(m, keyPeerServiceSource, PeerService),
                          peerServiceMappings)
    ELSE LET spanKind == IF has(m, SpanKind) THEN m[SpanKind] ELSE ""
             isOutboundRequest == spanKind = SpanKindClient \/ spanKind = SpanKindProducer
             r == setPeerServiceFromSource(m)
         IN  IF ~isOutboundRequest THEN m
             ELSE IF r.source = "" THEN m
             ELSE remapPeerService(setMeta(r.meta, keyPeerServiceSource, r.source),
                                   peerServiceMappings)

\* setPeerService, lines 602-625
setPeerService(m, peerServiceDefaults, peerServiceMappings) ==
    IF has(m, PeerService)
    THEN remapPeerService(setMeta(m, keyPeerServiceSource, PeerService),
                          peerServiceMappings)
    ELSE LET spanKind == IF has(m, SpanKind) THEN m[SpanKind] ELSE ""
             isOutboundRequest == spanKind = SpanKindClient \/ spanKind = SpanKindProducer
             r == setPeerServiceFromSource(m)
         IN  IF ~(isOutboundRequest /\ peerServiceDefaults) THEN m
             ELSE IF r.source = "" THEN m
             ELSE remapPeerService(setMeta(r.meta, keyPeerServiceSource, r.source),
                                   peerServiceMappings)

----------------------------------------------------------------------------
(* The spans of the model.  What a span carries before it is pushed (its   *)
(* service and its tags) is a function of its id.                          *)

SpanService(s) ==
    CASE s = 1 -> "web"
      [] s = 2 -> "cassandra-client"
      [] s = 3 -> "WEB"
      [] OTHER -> ""

SpanMeta(s) ==
    CASE s = 2 -> (SpanKind :> SpanKindClient) @@ (DBSystem :> DBSystemCassandra)
                  @@ (CassandraContactPoints :> "10.0.0.1") @@ (TargetHost :> "db-host")
      [] s = 3 -> (PeerService :> "billing")
      [] s = 4 -> (SpanKind :> SpanKindProducer) @@ (PeerHostname :> "broker")
      [] OTHER -> EmptyMap

\* the sampling-priority metrics a span may carry when it is started
\* (NilPtr: none)
SpanPriorityMetrics(s) ==
    IF s = 2 THEN {Ptr(p) : p \in Priorities} ELSE {NilPtr}

\* strings.EqualFold over the service names of the model
ToLower(str) == IF str = "WEB" THEN "web" ELSE str
EqualFold(a, b) == ToLower(a) = ToLower(b)

\* what the live configuration and the process-wide providers return
ServiceTag == "web"
PeerServiceMappings == ("billing" :> "billing-v2")
GitMetadataTags == ("_dd.git.commit.sha" :> "c0ffee")
ProcessTags == "entrypoint.name:app"

PeerServiceDefaults == TRUE

\* partial flush disabled, or enabled with a minimum of 1..MaxMinSpans spans
TracerConfs ==
    {[PartialFlush |-> FALSE, PartialFlushMinSpans |-> MaxMinSpans]}
    \cup [PartialFlush : {TRUE}, PartialFlushMinSpans : 1..MaxMinSpans]

----------------------------------------------------------------------------
VARIABLES
    tr,                 \* what getGlobalTracer returns: "nil", "tracer" (a *tracer) or "mock"
    tc,                 \* the partial-flush settings of tr.TracerConf()
    traceMaxSize,       \* the package variable traceMaxSize
    exists,             \* the trace buffer has been created
    traceUpper,         \* upper 8 bytes of the trace id held by the span contexts
    spans,              \* trace.spans
    tags,               \* trace.tags
    propagatingTags,    \* trace.propagatingTags
    finished,           \* trace.finished
    full,               \* trace.full
    priority,           \* trace.priority: NilPtr or Ptr(p)
    locked,             \* trace.locked
    samplingDecision,   \* trace.samplingDecision
    root,               \* trace.root
    pc,                 \* position of each span's constructor
    spanFinished,       \* Span.finished
    metrics,            \* Span.metrics[keySamplingPriority]: NilPtr or Ptr(v)
    meta,               \* Span.meta
    tagged,             \* per span: NilPtr, or Ptr of the trace-level tags of the
                        \* buffer when setTraceTags last ran on the span
    chunks,             \* the chunks handed to tracer.submitChunk, in order
    last,               \* what the last operation returned or raised
    parent,             \* a SpanContext used as parent: its baggage fields
    child,              \* NilPtr, or Ptr of the SpanContext newSpanContext made from parent
    born,               \* NilPtr, or Ptr of the parent's baggage map when child was made
    recv,               \* the receiver of the read accessors: NilPtr or Ptr of a SpanContext
    got,                \* the accessor or setter called last and what it returned
    tid,                \* a traceID the setters act on
    smeta,              \* the meta map of a span setPeerService is called on
    heap,               \* the trace buffers made by FromGenericCtx and newSpanContext
    ctxs,               \* the span contexts made by them, in order of creation
    arrays              \* the backing arrays of the []SpanLink slices; a slice is
                        \* the index of its array, 0 the nil slice

traceVars == <<spans, tags, propagatingTags, finished, full, priority, locked,
               samplingDecision, root>>
spanVars == <<pc, spanFinished, metrics, meta, tagged>>
ctxVars == <<parent, child, born, recv, got, tid, smeta, heap, ctxs, arrays>>
envVars == <<tr, tc, traceMaxSize, exists, traceUpper, ctxVars>>
vars == <<envVars, traceVars, spanVars, chunks, last>>

\* op: "setSamplingPriority", "keep" or "drop" after a call of these, else
\* "other"; ret: the value setSamplingPriority returned; panicked: the
\* call raised a run-time panic; wroteSubmitted: the call wrote a tag or a
\* metric of a span that an earlier call had handed over in a chunk
Returned ==
    [op |-> "other", ret |-> FALSE, panicked |-> FALSE, wroteSubmitted |-> FALSE]

\* newTrace
newTrace ==
    /\ spans = <<>>
    /\ tags = EmptyMap
    /\ propagatingTags = EmptyMap
    /\ finished = 0
    /\ full = FALSE
    /\ priority = NilPtr
    /\ locked = FALSE
    /\ samplingDecision = decisionNone
    /\ root = NoSpan

\* a SpanContext no baggage item was ever set on: c.baggage is nil
NoBaggage == [baggage |-> NilPtr, hasBaggage |-> 0, baggageOnly |-> FALSE]

\* the span contexts outside the trace buffer, not used by its operations
InitCtx ==
    /\ parent = NoBaggage
    /\ child = NilPtr
    /\ born = NilPtr
    /\ recv = NilPtr
    /\ got = [op |-> "none"]
    /\ tid = <<>>
    /\ smeta = EmptyMap
    /\ heap = <<>>
    /\ ctxs = <<>>
    /\ arrays = <<>>

\* The trace buffer is either created by the first span of the trace
\* (exists = FALSE until then) or was created by FromGenericCtx from a remote
\* context, which may carry a decision-maker propagating tag.
Init ==
    /\ tr \in {"nil", "tracer", "mock"}
    /\ tc \in TracerConfs
    /\ traceMaxSize \in MaxSizes
    /\ newTrace
    /\ \/ exists = FALSE /\ traceUpper = TimeUpper
       \/ exists = TRUE /\ traceUpper = ZeroUpper
    /\ pc = [s \in SpanIds |-> "idle"]
    /\ spanFinished = [s \in SpanIds |-> FALSE]
    /\ metrics = [s \in SpanIds |-> NilPtr]
    /\ meta = [s \in SpanIds |-> SpanMeta(s)]
    /\ tagged = [s \in SpanIds |-> NilPtr]
    /\ chunks = <<>>
    /\ last = Returned
    /\ InitCtx

----------------------------------------------------------------------------
(* Sampling priority and sampling decision *)

\* strconv.Itoa over the sampler names of the model
Itoa(n) ==
    CASE n = -1 -> "-1"
      [] n = 0 -> "0"
      [] n = 1 -> "1"
      [] n = 2 -> "2"
      [] n = 3 -> "3"
      [] OTHER -> "4"

\* samplerToDM without the leading dash
samplerToDM_NoDash(sampler) == Itoa(sampler)

samplerToDM(sampler) == "-" \o Itoa(sampler)

\* trace.setPropagatingTagLocked
setPropagatingTagLocked(pt, key, value) ==
    [x \in (DOMAIN pt) \cup {key} |-> IF x = key THEN value ELSE pt[x]]

\* setSamplingPriorityLocked without the check of the locked flag
setSamplingPriorityLocked_Unlocked(p, sampler) ==
    LET updatedPriority == priority = NilPtr \/ Deref(priority) # p
        existed == has(propagatingTags, keyDecisionMaker)
        curDM == IF existed THEN propagatingTags[keyDecisionMaker] ELSE ""
        dm == samplerToDM(sampler)
    IN  IF p > 0 /\ sampler # Unknown /\ (~existed \/ dm # curDM)
        THEN [priority |-> Ptr(p),
              propagatingTags |->
                  setPropagatingTagLocked(propagatingTags, keyDecisionMaker, dm),
              ret |-> TRUE]
        ELSE [priority |-> Ptr(p),
              propagatingTags |->
                  IF p <= 0 /\ existed
                  THEN deleteKey(propagatingTags, keyDecisionMaker)
                  ELSE propagatingTags,
              ret |-> updatedPriority]

\* setSamplingPriorityLocked that never deletes the decision maker
setSamplingPriorityLocked_KeepDM(p, sampler) ==
    IF locked
    THEN [priority |-> priority, propagatingTags |-> propagatingTags, ret |-> FALSE]
    ELSE LET updatedPriority == priority = NilPtr \/ Deref(priority) # p
             existed == has(propagatingTags, keyDecisionMaker)
             curDM == IF existed THEN propagatingTags[keyDecisionMaker] ELSE ""
             dm == samplerToDM(sampler)
         IN  IF p > 0 /\ sampler # Unknown /\ (~existed \/ dm # curDM)
             THEN [priority |-> Ptr(p),
                   propagatingTags |->
                       setPropagatingTagLocked(propagatingTags, keyDecisionMaker, dm),
                   ret |-> TRUE]
             ELSE [priority |-> Ptr(p),
                   propagatingTags |-> propagatingTags,
                   ret |-> updatedPriority]

\* trace.setSamplingPriorityLocked: the new priority, the new propagating
\* tags and the returned flag
setSamplingPriorityLocked(p, sampler) ==
    IF locked
    THEN [priority |-> priority, propagatingTags |-> propagatingTags, ret |-> FALSE]
    ELSE LET updatedPriority == priority = NilPtr \/ Deref(priority) # p
             existed == has(propagatingTags, keyDecisionMaker)
             curDM == IF existed THEN propagatingTags[keyDecisionMaker] ELSE ""
             dm == samplerToDM(sampler)
         IN  IF p > 0 /\ sampler # Unknown /\ (~existed \/ dm # curDM)
             THEN [priority |-> Ptr(p),
                   propagatingTags |->
                       setPropagatingTagLocked(propagatingTags, keyDecisionMaker, dm),
                   ret |-> TRUE]
             ELSE [priority |-> Ptr(p),
                   propagatingTags |->
                       IF p <= 0 /\ existed
                       THEN deleteKey(propagatingTags, keyDecisionMaker)
                       ELSE propagatingTags,
                   ret |-> updatedPriority]

\* trace.setSamplingPriority
SetSamplingPriority(p, sampler) ==
    LET r == setSamplingPriorityLocked(p, sampler)
    IN  /\ exists
        /\ priority' = r.priority
        /\ propagatingTags' = r.propagatingTags
        /\ last' = [Returned EXCEPT !.op = "setSamplingPriority", !.ret = r.ret]
        /\ UNCHANGED <<envVars, spans, tags, finished, full, locked, samplingDecision,
                       root, spanVars, chunks>>

\* a plain store in place of the compare-and-swap
CompareAndSwap_Store(cur, old, new) == new

\* a swap that also lets a drop replace an earlier keep
CompareAndSwap_DropWins(cur, old, new) ==
    IF cur = old \/ new = decisionDrop THEN new ELSE cur

\* atomic.CompareAndSwapUint32 on the sampling decision
CompareAndSwap(cur, old, new) == IF cur = old THEN new ELSE cur

\* trace.keep
Keep ==
    /\ exists
    /\ samplingDecision' = CompareAndSwap(samplingDecision, decisionNone, decisionKeep)
    /\ last' = [Returned EXCEPT !.op = "keep"]
    /\ UNCHANGED <<envVars, spans, tags, propagatingTags, finished, full, priority,
                   locked, root, spanVars, chunks>>

\* trace.drop
Drop ==
    /\ exists
    /\ samplingDecision' = CompareAndSwap(samplingDecision, decisionNone, decisionDrop)
    /\ last' = [Returned EXCEPT !.op = "drop"]
    /\ UNCHANGED <<envVars, spans, tags, propagatingTags, finished, full, priority,
                   locked, root, spanVars, chunks>>

\* trace.setTag
SetTag(key, value) ==
    /\ exists
    /\ tags' = setMeta(tags, key, value)
    /\ last' = Returned
    /\ UNCHANGED <<envVars, spans, propagatingTags, finished, full, priority, locked,
                   samplingDecision, root, spanVars, chunks>>

\* trace.setLocked
SetLocked(b) ==
    /\ exists
    /\ locked' = b
    /\ last' = Returned
    /\ UNCHANGED <<envVars, spans, tags, propagatingTags, finished, full, priority,
                   samplingDecision, root, spanVars, chunks>>

----------------------------------------------------------------------------
(* Push *)

\* push that marks the buffer full on overflow but keeps the buffered spans
push_KeepOnOverflow(sp, v) ==
    LET same == [spans |-> spans, full |-> full, priority |-> priority,
                 propagatingTags |-> propagatingTags]
        r == setSamplingPriorityLocked(Deref(v), Unknown)
    IN  IF full THEN same
        ELSE IF Len(spans) >= traceMaxSize
        THEN [same EXCEPT !.full = TRUE]
        ELSE IF v # NilPtr
        THEN [same EXCEPT !.priority = r.priority,
                          !.propagatingTags = r.propagatingTags,
                          !.spans = Append(spans, sp)]
        ELSE [same EXCEPT !.spans = Append(spans, sp)]

\* push that applies the span's priority as if the agent rate sampler set it
push_WithSampler(sp, v) ==
    LET same == [spans |-> spans, full |-> full, priority |-> priority,
                 propagatingTags |-> propagatingTags]
        r == setSamplingPriorityLocked(Deref(v), AgentRate)
    IN  IF full THEN same
        ELSE IF Len(spans) >= traceMaxSize
        THEN [same EXCEPT !.full = TRUE, !.spans = <<>>]
        ELSE IF v # NilPtr
        THEN [same EXCEPT !.priority = r.priority,
                          !.propagatingTags = r.propagatingTags,
                          !.spans = Append(spans, sp)]
        ELSE [same EXCEPT !.spans = Append(spans, sp)]

\* push that takes one span more than traceMaxSize before it overflows
push_OffByOne(sp, v) ==
    LET same == [spans |-> spans, full |-> full, priority |-> priority,
                 propagatingTags |-> propagatingTags]
        r == setSamplingPriorityLocked(Deref(v), Unknown)
    IN  IF full THEN same
        ELSE IF Len(spans) > traceMaxSize
        THEN [same EXCEPT !.full = TRUE, !.spans = <<>>]
        ELSE IF v # NilPtr
        THEN [same EXCEPT !.priority = r.priority,
                          !.propagatingTags = r.propagatingTags,
                          !.spans = Append(spans, sp)]
        ELSE [same EXCEPT !.spans = Append(spans, sp)]

\* the body of trace.push for span sp whose sampling-priority metric is v
\* (NilPtr when the span carries none): the new trace fields
push(sp, v) ==
    LET same == [spans |-> spans, full |-> full, priority |-> priority,
                 propagatingTags |-> propagatingTags]
        r == setSamplingPriorityLocked(Deref(v), Unknown)
    IN  IF full THEN same
        ELSE IF Len(spans) >= traceMaxSize
        THEN [same EXCEPT !.full = TRUE, !.spans = <<>>]
        ELSE IF v # NilPtr
        THEN [same EXCEPT !.priority = r.priority,
                          !.propagatingTags = r.propagatingTags,
                          !.spans = Append(spans, sp)]
        ELSE [same EXCEPT !.spans = Append(spans, sp)]

PushEffect(sp, v) ==
    LET r == push(sp, v)
    IN  /\ spans' = r.spans
        /\ full' = r.full
        /\ priority' = r.priority
        /\ propagatingTags' = r.propagatingTags
        /\ metrics' = [metrics EXCEPT ![sp] = v]
        /\ pc' = [pc EXCEPT ![sp] = "pushed"]
        /\ last' = Returned
        /\ UNCHANGED <<tr, tc, traceMaxSize, traceUpper, ctxVars, tags, finished,
                       locked, samplingDecision, spanFinished, meta, tagged, chunks>>

\* newSpanContext of the first span of a trace that has no buffer yet: the
\* buffer is created, the span becomes its root and is pushed.  Nothing else
\* can reach the buffer before the constructor returns.
NewTraceSpan(sp, v) ==
    /\ ~exists
    /\ pc[sp] = "idle"
    /\ exists' = TRUE
    /\ root' = sp
    /\ PushEffect(sp, v)

\* newSpanContext on an existing buffer whose root is nil, line 190: the
\* read of trace.root, which is not under the buffer's lock
ReadRoot(sp) ==
    /\ exists
    /\ pc[sp] = "idle"
    /\ root = NoSpan
    /\ pc' = [pc EXCEPT ![sp] = "sawNil"]
    /\ last' = Returned
    /\ UNCHANGED <<envVars, traceVars, spanFinished, metrics, meta, tagged, chunks>>

\* newSpanContext, line 192: trace.root = span
WriteRoot(sp) ==
    /\ pc[sp] = "sawNil"
    /\ root' = sp
    /\ pc' = [pc EXCEPT ![sp] = "ready"]
    /\ last' = Returned
    /\ UNCHANGED <<envVars, spans, tags, propagatingTags, finished, full, priority,
                   locked, samplingDecision, spanFinished, metrics, meta, tagged,
                   chunks>>

\* newSpanContext, line 195: trace.push(span), after the root was written
\* (pc = "ready") or was read as set.  A root that is set is never reset, so
\* the read and the push of such a constructor are one step.
Push(sp, v) ==
    /\ exists
    /\ pc[sp] = "ready" \/ (pc[sp] = "idle" /\ root # NoSpan)
    /\ UNCHANGED <<exists, root>>
    /\ PushEffect(sp, v)

----------------------------------------------------------------------------
(* Finish *)

\* the trace id of a span context of this trace
ContextTraceID == traceUpper \o LowerBytes

\* trace.setTraceTags applied to a span whose meta map is m
\* setTraceTags that leaves out the propagating tags
setTraceTags_NoPropagating(m) ==
    LET m1 == setMetaAll(m, tags)
        m3 == setMetaAll(m1, GitMetadataTags)
        m4 == IF HasUpper(ContextTraceID)
              THEN setMeta(m3, keyTraceID128, UpperHex(ContextTraceID))
              ELSE m3
    IN  IF ProcessTags # "" THEN setMeta(m4, keyProcessTags, ProcessTags) ELSE m4

setTraceTags(m) ==
    LET m1 == setMetaAll(m, tags)
        m2 == setMetaAll(m1, propagatingTags)
        m3 == setMetaAll(m2, GitMetadataTags)
        m4 == IF HasUpper(ContextTraceID)
              THEN setMeta(m3, keyTraceID128, UpperHex(ContextTraceID))
              ELSE m3
    IN  IF ProcessTags # "" THEN setMeta(m4, keyProcessTags, ProcessTags) ELSE m4

\* the trace tags and propagating tags setTraceTags writes at this moment
TraceLevelTags == setMetaAll(tags, propagatingTags)

\* a finish that never freezes the priority
rootFreeze_Never(s) == FALSE

\* line 531: the finishing span is the root and a priority is set
rootFreeze(s) == s = root /\ priority # NilPtr

\* a chunk that is sent unless the trace was dropped
Chunk_SendUnlessDropped(ss) ==
    [spans |-> ss, willSend |-> (decisionDrop # samplingDecision)]

\* the chunk built by a flush
Chunk(ss) ==
    [spans |-> ss, willSend |-> (decisionKeep = samplingDecision)]

\* the spans a partial flush submits and the spans it keeps, given the
\* finished flags fin
finishedSpans(fin) == SelectSeq(spans, LAMBDA x : fin[x])
\* a partial flush that keeps the whole buffer
leftoverSpans_All(fin) == spans
leftoverSpans(fin) == SelectSeq(spans, LAMBDA x : ~fin[x])

\* the span that receives the priority metric and the trace-level tags of a
\* partial flush
firstOfChunk_Root(fs) == IF root # NoSpan THEN root ELSE fs[1]
\* a partial flush that marks the last of the finished spans
firstOfChunk_Last(fs) == fs[Len(fs)]
\* line 581: finishedSpans[0]
firstOfChunk(fs) == fs[1]

\* a partial flush that does not look at the PartialFlush setting
flushKind_Eager(nFinished) ==
    IF Len(spans) = nFinished THEN "full"
    ELSE IF nFinished >= tc.PartialFlushMinSpans THEN "partial"
    ELSE "none"

\* a finish that tests the partial-flush condition before the full-flush one
flushKind_PartialFirst(nFinished) ==
    IF tc.PartialFlush /\ nFinished >= tc.PartialFlushMinSpans THEN "partial"
    ELSE IF Len(spans) = nFinished THEN "full"
    ELSE "none"

\* lines 553 and 564: which flush a finish triggers
flushKind(nFinished) ==
    IF Len(spans) = nFinished THEN "full"
    ELSE IF tc.PartialFlush /\ nFinished >= tc.PartialFlushMinSpans THEN "partial"
    ELSE "none"

\* the spans that have been handed over in a chunk
SubmittedSpans ==
    UNION {{chunks[i].spans[j] : j \in 1..Len(chunks[i].spans)} : i \in 1..Len(chunks)}

\* finishChunk that leaves the finished counter as it is
finishChunk_NoReset(nFinished, ss) ==
    /\ finished' = nFinished
    /\ chunks' = IF tr = "tracer" THEN Append(chunks, Chunk(ss)) ELSE chunks

\* finishChunk that resets the finished counter to one
finishChunk_ResetToOne(nFinished, ss) ==
    IF tr = "tracer"
    THEN /\ chunks' = Append(chunks, Chunk(ss))
         /\ finished' = 1
    ELSE /\ finished' = nFinished
         /\ UNCHANGED chunks

\* trace.finishChunk with a *tracer installed; with another tracer the
\* chunk is not built and finishChunk is not called
finishChunk(nFinished, ss) ==
    IF tr = "tracer"
    THEN /\ chunks' = Append(chunks, Chunk(ss))
         /\ finished' = 0
    ELSE /\ finished' = nFinished
         /\ UNCHANGED chunks

\* trace.finishedOne.  A span is finished once: Span.finish returns early on
\* a span whose finished flag is set.
FinishedOne(s) ==
    /\ pc[s] = "pushed"
    /\ ~spanFinished[s]
    /\ spanFinished' = [spanFinished EXCEPT ![s] = TRUE]
    /\ UNCHANGED <<envVars, tags, propagatingTags, full, priority, samplingDecision,
                   root, pc>>
    /\ IF full
       THEN /\ last' = Returned
            /\ UNCHANGED <<spans, finished, locked, metrics, meta, tagged, chunks>>
       ELSE IF tr = "nil"
       THEN /\ finished' = finished + 1
            /\ last' = Returned
            /\ UNCHANGED <<spans, locked, metrics, meta, tagged, chunks>>
       ELSE
        LET fin == spanFinished'
            nFinished == finished + 1
            m1 == setPeerService(meta[s], PeerServiceDefaults, PeerServiceMappings)
            m2 == IF SpanService(s) # "" /\ ~EqualFold(SpanService(s), ServiceTag)
                  THEN setMeta(m1, keyBaseService, ServiceTag)
                  ELSE m1
            rootHit == rootFreeze(s)
            metrics1 == IF rootHit THEN [metrics EXCEPT ![root] = priority] ELSE metrics
            firstHit == Len(spans) > 0 /\ s = spans[1]
            m3 == IF firstHit THEN setTraceTags(m2) ELSE m2
            meta1 == [meta EXCEPT ![s] = m3]
            tagged1 == IF firstHit THEN [tagged EXCEPT ![s] = Ptr(TraceLevelTags)]
                       ELSE tagged
            kind == flushKind(nFinished)
            fs == finishedSpans(fin)
            first == firstOfChunk(fs)
            wrote == IF kind = "partial" /\ fs # <<>> /\ priority # NilPtr
                     THEN {s, first} ELSE {s}
            out == [Returned EXCEPT !.wroteSubmitted = (wrote \cap SubmittedSpans # {})]
        IN  /\ locked' = (locked \/ rootHit)
            /\ CASE kind = "full" ->
                    /\ metrics' = metrics1
                    /\ meta' = meta1
                    /\ tagged' = tagged1
                    /\ finishChunk(nFinished, spans)
                    /\ spans' = <<>>
                    /\ last' = out
                 [] kind = "none" ->
                    /\ metrics' = metrics1
                    /\ meta' = meta1
                    /\ tagged' = tagged1
                    /\ finished' = nFinished
                    /\ last' = out
                    /\ UNCHANGED <<spans, chunks>>
                 [] kind = "partial" /\ (fs = <<>> \/ priority = NilPtr) ->
                    \* line 581 panics (index out of range, or nil pointer
                    \* dereference of t.priority): the deferred unlock runs
                    \* and the panic reaches the caller of Finish
                    /\ metrics' = metrics1
                    /\ meta' = meta1
                    /\ tagged' = tagged1
                    /\ finished' = nFinished
                    /\ last' = [out EXCEPT !.panicked = TRUE]
                    /\ UNCHANGED <<spans, chunks>>
                 [] OTHER ->
                    /\ metrics' = [metrics1 EXCEPT ![first] = priority]
                    /\ meta' = IF s # spans[1]
                               THEN [meta1 EXCEPT ![first] = setTraceTags(meta1[first])]
                               ELSE meta1
                    /\ tagged' = IF s # spans[1]
                                 THEN [tagged1 EXCEPT ![first] = Ptr(TraceLevelTags)]
                                 ELSE tagged1
                    /\ finishChunk(nFinished, fs)
                    /\ spans' = leftoverSpans(fin)
                    /\ last' = out

----------------------------------------------------------------------------
(* Specifications.  Every specification has the operations on spans.  Spec  *)
(* adds setSamplingPriority, under every tracer and for both origins of the *)
(* buffer.  SpecTags adds setTag and SpecLocked adds setLocked, both with a *)
(* *tracer installed and a buffer created by the first span.  SpecDecision  *)
(* has keep and drop, whose effect is independent of the priority.          *)

\* spans of a trace the tracer started itself
OwnOps ==
    \/ \E sp \in SpanIds : \E v \in SpanPriorityMetrics(sp) : NewTraceSpan(sp, v)
    \/ \E sp \in SpanIds : \E v \in SpanPriorityMetrics(sp) : Push(sp, v)
    \/ \E s \in SpanIds : FinishedOne(s)

\* and the unsynchronised root check of children of an adopted context
SpanOps ==
    \/ OwnOps
    \/ \E sp \in SpanIds : ReadRoot(sp)
    \/ \E sp \in SpanIds : WriteRoot(sp)

Next ==
    \/ SpanOps
    \/ \E p \in Priorities, sampler \in SamplerNames : SetSamplingPriority(p, sampler)

Spec == Init /\ [][Next]_vars

InitTracer == Init /\ tr = "tracer" /\ ~exists

NextTags ==
    \/ OwnOps
    \/ \E p \in Priorities, sampler \in SamplerNames : SetSamplingPriority(p, sampler)
    \/ \E k \in TagKeys, v \in TagVals : SetTag(k, v)

SpecTags == InitTracer /\ [][NextTags]_vars

NextLocked ==
    \/ OwnOps
    \/ \E p \in Priorities, sampler \in SamplerNames : SetSamplingPriority(p, sampler)
    \/ \E b \in BOOLEAN : SetLocked(b)

SpecLocked == InitTracer /\ [][NextLocked]_vars

NextDecision ==
    \/ SpanOps
    \/ Keep
    \/ Drop

SpecDecision == Init /\ [][NextDecision]_vars

----------------------------------------------------------------------------
(* Vocabulary of the properties *)

Range(q) == {q[i] : i \in 1..Len(q)}

NoDuplicates(q) == \A i, j \in 1..Len(q) : q[i] = q[j] => i = j

\* the spans of all submitted chunks, in the order of submission
RECURSIVE Flatten(_)
Flatten(cs) == IF cs = <<>> THEN <<>> ELSE cs[1].spans \o Flatten(Tail(cs))

\* the spans whose constructor has called push
Pushed == {s \in SpanIds : pc[s] = "pushed"}

\* the step is the push of span sp / the finishedOne of span s
PushStep(sp) == pc[sp] # "pushed" /\ pc'[sp] = "pushed"
FinishStep(s) == ~spanFinished[s] /\ spanFinished'[s]

\* the step submits exactly one chunk, whose spans are ss
SubmitsOne(ss) ==
    /\ Len(chunks') = Len(chunks) + 1
    /\ SubSeq(chunks', 1, Len(chunks)) = chunks
    /\ chunks'[Len(chunks')].spans = ss

----------------------------------------------------------------------------
(* C1: with a *tracer installed, partial flush disabled and no overflow, a  *)
(* push appends the span at the end of the buffer, a finish that leaves a   *)
(* buffered span unfinished submits no chunk, and the finish that makes all *)
(* buffered spans finished submits exactly one chunk, whose spans are the   *)
(* buffered spans in push order, and empties the buffer.                    *)
C1_FullFlushOnce ==
    [][(tr = "tracer" /\ ~tc.PartialFlush /\ ~full') =>
        /\ \A sp \in SpanIds : PushStep(sp) => spans' = Append(spans, sp)
        /\ \A s \in SpanIds : FinishStep(s) =>
              IF \A x \in Range(spans) : spanFinished'[x]
              THEN SubmitsOne(spans) /\ spans' = <<>>
              ELSE chunks' = chunks /\ spans' = spans]_vars

C1_Witness ==
    /\ tr = "tracer" /\ ~tc.PartialFlush /\ ~full
    /\ Len(chunks) = 1 /\ Len(chunks[1].spans) = 3
    /\ chunks[1].spans # <<1, 2, 3>>
    /\ \A s \in SpanIds : s <= 3 => spanFinished[s]

(* C2 as stated: no span is submitted twice, and once every pushed span has *)
(* finished the chunks hold each pushed span exactly once.                  *)
C2_AsStated ==
    /\ NoDuplicates(Flatten(chunks))
    /\ (Pushed # {} /\ \A s \in Pushed : spanFinished[s]) =>
           Range(Flatten(chunks)) = Pushed

(* C2, amended: the second half holds with a *tracer installed and a buffer *)
(* that never overflowed.                                                   *)
C2_ExactlyOnce ==
    /\ NoDuplicates(Flatten(chunks))
    /\ (tr = "tracer" /\ ~full /\ \A s \in Pushed : spanFinished[s]) =>
           Range(Flatten(chunks)) = Pushed

C2_Witness ==
    /\ tr = "tracer" /\ ~full /\ tc.PartialFlush
    /\ Len(chunks) >= 2
    /\ Pushed = SpanIds
    /\ \A s \in Pushed : spanFinished[s]

(* C3: with a *tracer installed and partial flush enabled, a finish that    *)
(* brings the finished counter to the minimum or above while a buffered     *)
(* span is unfinished submits one chunk with exactly the finished buffered  *)
(* spans, keeps exactly the unfinished ones and resets the counter.         *)
C3_PartialFlush ==
    [][\A s \in SpanIds :
        (/\ FinishStep(s)
         /\ tr = "tracer" /\ ~full
         /\ tc.PartialFlush /\ finished + 1 >= tc.PartialFlushMinSpans
         /\ \E x \in Range(spans) : ~spanFinished'[x])
        => /\ SubmitsOne(SelectSeq(spans, LAMBDA x : spanFinished'[x]))
           /\ spans' = SelectSeq(spans, LAMBDA x : ~spanFinished'[x])
           /\ finished' = 0]_vars

C5_NeverPanics == ~last.panicked

(* C6: the sampling decision changes at most once, from none to keep or to *)
(* drop; a keep or drop call on an undecided trace sets it, any call on a   *)
(* decided trace leaves it, and no other operation changes it.              *)
C6_FirstDecisionWins ==
    [][/\ last'.op = "keep" =>
            samplingDecision' = IF samplingDecision = decisionNone
                                THEN decisionKeep ELSE samplingDecision
       /\ last'.op = "drop" =>
            samplingDecision' = IF samplingDecision = decisionNone
                                THEN decisionDrop ELSE samplingDecision
       /\ last'.op \notin {"keep", "drop"} => samplingDecision' = samplingDecision
       /\ samplingDecision # decisionNone => samplingDecision' = samplingDecision]_vars

C6_Witness ==
    /\ last.op = "drop"
    /\ samplingDecision = decisionKeep
    /\ \E s \in SpanIds : spanFinished[s]

(* C7: no call writes a tag or a metric of a span that an earlier call has  *)
(* submitted in a chunk.                                                    *)
C7_FreezeOnFinish == ~last.wroteSubmitted

C7_Witness ==
    /\ tr = "tracer" /\ tc.PartialFlush
    /\ Len(chunks) >= 2
    /\ priority # NilPtr
    /\ spans # <<>>

\* the last chunk submitted, after a step that submits one
NewChunk == chunks'[Len(chunks')]

(* C8 as stated: when a chunk is submitted its first span holds every trace *)
(* tag and every propagating tag the buffer holds at that moment, and the   *)
(* 128-bit tag when the trace id has an upper half.                         *)
C8_AsStated ==
    [][chunks' # chunks =>
        LET m == meta'[NewChunk.spans[1]]
        IN  /\ \A k \in DOMAIN TraceLevelTags' : has(m, k) /\ m[k] = TraceLevelTags'[k]
            /\ HasUpper(ContextTraceID) =>
                  (has(m, keyTraceID128) /\ m[keyTraceID128] = UpperHex(ContextTraceID))
      ]_vars

(* C8, amended: setTraceTags has run on the first span of every submitted   *)
(* chunk; the span holds every trace tag and propagating tag the buffer     *)
(* held when setTraceTags last ran on it, which for a partial flush is the  *)
(* moment of submission, and the 128-bit tag when the trace id has an       *)
(* upper half.                                                              *)
C8_FirstSpanTagged ==
    [][chunks' # chunks =>
        LET f == NewChunk.spans[1]
            m == meta'[f]
        IN  /\ tagged'[f] # NilPtr
            /\ \A k \in DOMAIN Deref(tagged'[f]) :
                  has(m, k) /\ m[k] = Deref(tagged'[f])[k]
            /\ spans' # <<>> => Deref(tagged'[f]) = TraceLevelTags'
            /\ HasUpper(ContextTraceID) =>
                  (has(m, keyTraceID128) /\ m[keyTraceID128] = UpperHex(ContextTraceID))
      ]_vars

C8_Witness ==
    /\ Len(chunks) >= 2
    /\ tags # EmptyMap
    /\ has(propagatingTags, keyDecisionMaker)
    /\ LET f == chunks[Len(chunks)].spans[1]
       IN  has(meta[f], keyDecisionMaker) /\ \E k \in TagKeys : has(meta[f], k)

(* C9 as stated: whenever the root finishes while a priority is set, the    *)
(* priority is written onto the root as its metric and the buffer is locked.*)
C9_AsStated ==
    [][\A s \in SpanIds :
        (FinishStep(s) /\ s = root /\ priority # NilPtr)
        => (metrics'[s] = priority /\ locked')]_vars

(* C9, amended: the root's finish freezes the priority when the buffer is   *)
(* not full and a tracer is installed; while the buffer is locked no        *)
(* operation changes the priority, and a finished span whose metric equals  *)
(* the priority keeps a metric equal to it.                                 *)
C9_RootFreeze ==
    [][/\ \A s \in SpanIds :
            (FinishStep(s) /\ s = root /\ priority # NilPtr /\ ~full /\ tr # "nil")
            => (metrics'[s] = priority /\ locked' /\ priority' = priority)
       /\ locked => priority' = priority
       /\ \A r \in SpanIds :
            (locked /\ spanFinished[r] /\ metrics[r] = priority)
            => metrics'[r] = priority']_vars

C9_Witness ==
    /\ locked
    /\ root # NoSpan /\ spanFinished[root] /\ metrics[root] = priority
    /\ last.op = "setSamplingPriority"
    /\ \E s \in Pushed : ~spanFinished[s] /\ metrics[s] # NilPtr
                         /\ metrics[s] # priority

(* C10: setSamplingPriority on a locked buffer returns false and leaves the *)
(* priority and the propagating tags unchanged.                             *)
C10_LockedNoUpdate ==
    [][(locked /\ last'.op = "setSamplingPriority") =>
        /\ ~last'.ret
        /\ priority' = priority
        /\ propagatingTags' = propagatingTags]_vars

C10_Witness ==
    /\ locked
    /\ last.op = "setSamplingPriority"
    /\ priority = NilPtr

----------------------------------------------------------------------------
(* Every pushed span is eventually finished: the finish of a pushed span    *)
(* stays enabled until it is taken.  Pushes stop because the spans are      *)
(* finitely many.                                                           *)
EveryPushedSpanFinishes == \A s \in SpanIds : WF_vars(FinishedOne(s))

SpecLive == InitTracer /\ [][OwnOps]_vars /\ EveryPushedSpanFinishes

\* the buffer is drained: nothing buffered, nothing counted, all submitted
Drained == spans = <<>> /\ finished = 0 /\ Pushed \subseteq SubmittedSpans

(* C11: with a *tracer installed, once pushes have stopped and every pushed *)
(* span has finished, the buffer that did not overflow ends up, and stays,  *)
(* empty with finished = 0 and every pushed span submitted in a chunk.      *)
C11_EventuallyDrained == <>[](full \/ Drained)

C11_Witness ==
    /\ ~full /\ tc.PartialFlush
    /\ Pushed = SpanIds
    /\ \A s \in SpanIds : spanFinished[s]
    /\ Len(chunks) >= 2
    /\ Drained

----------------------------------------------------------------------------
(* Baggage of span contexts *)

BaggageKeys == {"a", "b"}
BaggageVals == {"1", "2"}
BaggageMaps ==
    {EmptyMap} \cup {k :> v : k \in BaggageKeys, v \in BaggageVals}
    \cup {("a" :> v) @@ ("b" :> w) : v \in BaggageVals, w \in BaggageVals}

\* the baggage fields FromGenericCtx gives the context it builds from a
\* context that carries the items of the map items
FromGenericCtx(items) ==
    [baggage |-> Ptr(items),
     hasBaggage |-> IF items = EmptyMap THEN 0 ELSE 1,
     baggageOnly |-> FALSE]

\* the map c.baggage holds (a nil map holds nothing)
Items(c) == IF c.baggage = NilPtr THEN EmptyMap ELSE Deref(c.baggage)

\* SpanContext.setBaggageItem
setBaggageItem(c, key, val) ==
    IF c.baggage = NilPtr
    THEN [c EXCEPT !.hasBaggage = 1, !.baggage = Ptr(key :> val)]
    ELSE [c EXCEPT !.baggage = Ptr(setMeta(Deref(c.baggage), key, val))]

\* the items SpanContext.ForeachBaggageItem hands to a handler that
\* always returns true
ForeachBaggageItem(c) == IF c.hasBaggage = 0 THEN EmptyMap ELSE Items(c)

\* newSpanContext, lines 173-176: the baggage of the new context
newSpanContextBaggage(p) ==
    LET visited == ForeachBaggageItem(p)
    IN  IF visited = EmptyMap THEN NoBaggage
        ELSE [baggage |-> Ptr(visited), hasBaggage |-> 1, baggageOnly |-> FALSE]

IdleTrace ==
    /\ tr = "tracer"
    /\ tc = [PartialFlush |-> FALSE, PartialFlushMinSpans |-> MaxMinSpans]
    /\ traceMaxSize = MaxSpans
    /\ newTrace
    /\ exists = FALSE /\ traceUpper = TimeUpper
    /\ pc = [s \in SpanIds |-> "idle"]
    /\ spanFinished = [s \in SpanIds |-> FALSE]
    /\ metrics = [s \in SpanIds |-> NilPtr]
    /\ meta = [s \in SpanIds |-> SpanMeta(s)]
    /\ tagged = [s \in SpanIds |-> NilPtr]
    /\ chunks = <<>>
    /\ last = Returned
    /\ heap = <<>>
    /\ ctxs = <<>>
    /\ arrays = <<>>

bufferVars == <<tr, tc, traceMaxSize, exists, traceUpper, traceVars, spanVars, chunks, last,
                arrays>>
idleVars == <<bufferVars, heap, ctxs>>

\* the parent was started without a parent of its own, or converted by
\* FromGenericCtx
InitBaggage ==
    /\ IdleTrace
    /\ parent \in {NoBaggage} \cup {FromGenericCtx(items) : items \in BaggageMaps}
    /\ child = NilPtr
    /\ born = NilPtr
    /\ recv = NilPtr
    /\ got = [op |-> "none"]
    /\ tid = <<>>
    /\ smeta = EmptyMap

NewChild ==
    /\ child = NilPtr
    /\ child' = Ptr(newSpanContextBaggage(parent))
    /\ born' = Ptr(Items(parent))
    /\ UNCHANGED <<parent, recv, got, tid, smeta, idleVars>>

SetBaggageParent(key, val) ==
    /\ parent' = setBaggageItem(parent, key, val)
    /\ UNCHANGED <<child, born, recv, got, tid, smeta, idleVars>>

SetBaggageChild(key, val) ==
    /\ child # NilPtr
    /\ child' = Ptr(setBaggageItem(Deref(child), key, val))
    /\ UNCHANGED <<parent, born, recv, got, tid, smeta, idleVars>>

NextBaggage ==
    \/ NewChild
    \/ \E k \in BaggageKeys, v \in BaggageVals : SetBaggageParent(k, v)
    \/ \E k \in BaggageKeys, v \in BaggageVals : SetBaggageChild(k, v)

SpecBaggage == InitBaggage /\ [][NextBaggage]_vars

(* C12: a child made from a parent that is not baggage-only holds every     *)
(* baggage item the parent holds when the child is made; afterwards a       *)
(* setBaggageItem on the parent leaves the child's baggage unchanged and a  *)
(* setBaggageItem on the child leaves the parent's unchanged.               *)
C12_BaggageCopied ==
    [][/\ (child = NilPtr /\ child' # NilPtr /\ ~parent.baggageOnly)
            => \A k \in DOMAIN Items(parent) :
                   /\ has(Items(Deref(child')), k)
                   /\ Items(Deref(child'))[k] = Items(parent)[k]
       /\ (child # NilPtr /\ parent' # parent) => child' = child
       /\ (child # NilPtr /\ child' # child) => parent' = parent]_vars

----------------------------------------------------------------------------
(* 64-bit values and the halves of a traceID.  A uint64 is held as four     *)
(* 16-bit limbs, most significant first.                                    *)

Zero64 == <<0, 0, 0, 0>>

\* binary.BigEndian.Uint64 of 8 bytes
Uint64(bs) == [i \in 1..4 |-> bs[2 * i - 1] * 256 + bs[2 * i]]

\* binary.BigEndian.PutUint64: the 8 bytes of u
PutUint64(u) ==
    [i \in 1..8 |-> IF i % 2 = 1 THEN u[(i + 1) \div 2] \div 256
                    ELSE u[i \div 2] % 256]

emptyTraceID == [i \in 1..16 |-> 0]
TraceIDZero == "00000000000000000000000000000000"

HexEncoded(t) == HexEncodeToString(t)
Lower(t) == Uint64(SubSeq(t, 9, 16))
Upper(t) == Uint64(SubSeq(t, 1, 8))
SetLower(t, i) == SubSeq(t, 1, 8) \o PutUint64(i)
\* SetUpper that writes the other half
SetUpper_WritesLower(t, i) == SubSeq(t, 1, 8) \o PutUint64(i)
SetUpper(t, i) == PutUint64(i) \o SubSeq(t, 9, 16)

----------------------------------------------------------------------------
(* Read accessors of SpanContext *)

\* SpanContext.SpanID
SpanID(x) == IF x = NilPtr THEN Zero64 ELSE Deref(x).spanID

\* SpanContext.TraceID
TraceID(x) == IF x = NilPtr THEN TraceIDZero ELSE HexEncoded(Deref(x).traceID)

\* SpanContext.TraceIDBytes
TraceIDBytes(x) == IF x = NilPtr THEN emptyTraceID ELSE Deref(x).traceID

\* SpanContext.TraceIDLower
TraceIDLower(x) == IF x = NilPtr THEN Zero64 ELSE Lower(Deref(x).traceID)

\* SpanContext.TraceIDUpper
TraceIDUpper(x) == IF x = NilPtr THEN Zero64 ELSE Upper(Deref(x).traceID)

\* SpanContext.ForeachBaggageItem with the nil check of line 252: the items
\* handed to the handler
ForeachBaggageItemOf(x) == IF x = NilPtr THEN EmptyMap ELSE ForeachBaggageItem(Deref(x))

\* samplingPriorityLocked that reports ok for an unset priority
samplingPriorityLocked_AlwaysOk(pr) ==
    IF pr = NilPtr THEN [p |-> 0, ok |-> TRUE] ELSE [p |-> Deref(pr), ok |-> TRUE]

\* trace.samplingPriorityLocked, on the priority field of the trace
samplingPriorityLocked(pr) ==
    IF pr = NilPtr THEN [p |-> 0, ok |-> FALSE] ELSE [p |-> Deref(pr), ok |-> TRUE]

\* trace.samplingPriority
samplingPriority(pr) == samplingPriorityLocked(pr)

\* SpanContext.SamplingPriority; the trace field is NilPtr or Ptr of the
\* trace's priority field
SamplingPriority(x) ==
    IF x = NilPtr \/ Deref(x).trace = NilPtr THEN [p |-> 0, ok |-> FALSE]
    ELSE samplingPriority(Deref(Deref(x).trace))

SpanIDs64 == {<<0, 0, 0, 7>>, <<65535, 0, 1, 2>>}
TraceIDs == {emptyTraceID, TimeUpper \o LowerBytes, ZeroUpper \o LowerBytes}
AccessorPriorities == {-1, 0, 2}
TraceFields == {NilPtr, Ptr(NilPtr)} \cup {Ptr(Ptr(p)) : p \in AccessorPriorities}

Receivers ==
    {NilPtr} \cup
    {Ptr([spanID |-> sid, traceID |-> t, trace |-> tf,
          baggage |-> b.baggage, hasBaggage |-> b.hasBaggage, baggageOnly |-> FALSE]) :
        sid \in SpanIDs64, t \in TraceIDs, tf \in TraceFields,
        b \in {NoBaggage, FromGenericCtx(EmptyMap), FromGenericCtx("a" :> "1")}}

InitAccessors ==
    /\ IdleTrace
    /\ parent = NoBaggage /\ child = NilPtr /\ born = NilPtr
    /\ recv \in Receivers
    /\ got = [op |-> "none"]
    /\ tid = <<>>
    /\ smeta = EmptyMap

Call(op, val) ==
    /\ got' = [op |-> op, val |-> val]
    /\ UNCHANGED <<recv, tid, smeta, parent, child, born, idleVars>>

CallSpanID == Call("SpanID", SpanID(recv))
CallTraceID == Call("TraceID", TraceID(recv))
CallTraceIDBytes == Call("TraceIDBytes", TraceIDBytes(recv))
CallTraceIDLower == Call("TraceIDLower", TraceIDLower(recv))
CallTraceIDUpper == Call("TraceIDUpper", TraceIDUpper(recv))
CallForeachBaggageItem == Call("ForeachBaggageItem", ForeachBaggageItemOf(recv))
CallSamplingPriority == Call("SamplingPriority", SamplingPriority(recv))

NextAccessors ==
    \/ CallSpanID
    \/ CallTraceID
    \/ CallTraceIDBytes
    \/ CallTraceIDLower
    \/ CallTraceIDUpper
    \/ CallForeachBaggageItem
    \/ CallSamplingPriority

SpecAccessors == InitAccessors /\ [][NextAccessors]_vars

(* C13: on a nil context SpanID, TraceIDLower and TraceIDUpper return 0,    *)
(* TraceID returns 32 zero digits, TraceIDBytes the all-zero identifier,    *)
(* SamplingPriority (0, false), and ForeachBaggageItem hands no item to the *)
(* handler; SamplingPriority is (0, false) too without a trace buffer or    *)
(* without a priority.                                                      *)
C13_NilSafe ==
    /\ recv = NilPtr =>
        /\ got.op \in {"SpanID", "TraceIDLower", "TraceIDUpper"} => got.val = Zero64
        /\ got.op = "TraceID" => got.val = HexEncodeToString(emptyTraceID)
        /\ got.op = "TraceIDBytes" => got.val = emptyTraceID
        /\ got.op = "ForeachBaggageItem" => got.val = EmptyMap
    /\ (/\ got.op = "SamplingPriority"
        /\ \/ recv = NilPtr
           \/ Deref(recv).trace = NilPtr
           \/ Deref(Deref(recv).trace) = NilPtr)
       => got.val = [p |-> 0, ok |-> FALSE]

C13_Witness ==
    /\ recv = NilPtr
    /\ got.op = "TraceID"
    /\ got.val = TraceIDZero

----------------------------------------------------------------------------
(* Setters of traceID.  A string is held as the sequence of its characters. *)

UpperDigits == <<"0", "1", "2", "3", "4", "5", "6", "7",
                 "8", "9", "A", "B", "C", "D", "E", "F">>

IsHexDigit(ch) == \E i \in 1..16 : ch = HexDigits[i] \/ ch = UpperDigits[i]

\* the value of a hexadecimal digit, as strconv.ParseUint reads it
DigitValue(ch) == (CHOOSE i \in 1..16 : ch = HexDigits[i] \/ ch = UpperDigits[i]) - 1

Nibbles0 == [i \in 1..16 |-> 0]

\* the uint64 held in 16 nibbles, most significant first
NibblesToUint64(n) ==
    [i \in 1..4 |-> ((n[4 * i - 3] * 16 + n[4 * i - 2]) * 16 + n[4 * i - 1]) * 16 + n[4 * i]]

\* the loop of strconv.ParseUint(s, 16, 64) over the characters left in s,
\* with the value read so far in the nibbles n: a character that is no
\* digit is a syntax error, a value of more than 64 bits a range error
RECURSIVE ParseLoop(_, _)
ParseLoop(s, n) ==
    IF s = <<>> THEN [err |-> FALSE, u |-> NibblesToUint64(n)]
    ELSE IF ~IsHexDigit(s[1]) THEN [err |-> TRUE, u |-> Zero64]
    ELSE IF n[1] # 0 THEN [err |-> TRUE, u |-> Zero64]
    ELSE ParseLoop(Tail(s), Tail(n) \o <<DigitValue(s[1])>>)

\* strconv.ParseUint(s, 16, 64)
ParseUint(s) ==
    IF s = <<>> THEN [err |-> TRUE, u |-> Zero64] ELSE ParseLoop(s, Nibbles0)

\* traceID.SetUpperFromHex
SetUpperFromHex(t, s) ==
    LET r == ParseUint(s)
    IN  IF r.err THEN [err |-> TRUE, t |-> t]
        ELSE [err |-> FALSE, t |-> SetUpper(t, r.u)]

U64s == {Zero64, <<0, 0, 0, 5>>, <<25930, 6956, 0, 0>>}
HexStrings ==
    { <<>>, <<"0">>, <<"f", "f">>, <<"F", "F">>, <<"1", "a", "B">>, <<"g">>,
      <<"0", "x", "1">>, <<"-", "1">>,
      <<"6", "5", "4", "a", "1", "b", "2", "c", "0", "0", "0", "0", "0", "0", "0", "0">>,
      <<"F", "F", "F", "F", "F", "F", "F", "F", "F", "F", "F", "F", "F", "F", "F", "E">>,
      <<"1", "0", "0", "0", "0", "0", "0", "0", "0", "0", "0", "0", "0", "0", "0", "0", "0">>,
      <<"0", "0", "0", "0", "0", "0", "0", "0", "0", "0", "0", "0", "0", "0", "0", "0", "7">> }

\* got.everNonZero: a setter has been called with a value that is not
\* zero; got.before: the identifier before the call; got.upper: the value
\* the last successful SetUpper or SetUpperFromHex call was given
InitTraceID ==
    /\ IdleTrace
    /\ parent = NoBaggage /\ child = NilPtr /\ born = NilPtr /\ recv = NilPtr
    /\ tid = emptyTraceID
    /\ smeta = EmptyMap
    /\ got = [op |-> "none", arg |-> <<>>, err |-> FALSE, before |-> emptyTraceID,
              everNonZero |-> FALSE, upper |-> Zero64]

Setter(op, arg, err, t, value) ==
    /\ tid' = t
    /\ got' = [op |-> op, arg |-> arg, err |-> err, before |-> tid,
               everNonZero |-> (got.everNonZero \/ (~err /\ value # Zero64)),
               upper |-> IF op # "SetLower" /\ ~err THEN value ELSE got.upper]
    /\ UNCHANGED <<parent, child, born, recv, smeta, idleVars>>

CallSetLower(i) == Setter("SetLower", i, FALSE, SetLower(tid, i), i)
CallSetUpper(i) == Setter("SetUpper", i, FALSE, SetUpper(tid, i), i)
CallSetUpperFromHex(s) ==
    LET r == SetUpperFromHex(tid, s)
    IN  Setter("SetUpperFromHex", s, r.err, r.t, ParseUint(s).u)

NextTraceID ==
    \/ \E i \in U64s : CallSetLower(i)
    \/ \E i \in U64s : CallSetUpper(i)
    \/ \E s \in HexStrings : CallSetUpperFromHex(s)

SpecTraceID == InitTraceID /\ [][NextTraceID]_vars

\* s is a hexadecimal numeral of a 64-bit value: one digit or more, only
\* hexadecimal digits, and only zeros before the last 16 digits
WellFormed(s) ==
    /\ Len(s) >= 1
    /\ \A i \in 1..Len(s) : IsHexDigit(s[i])
    /\ \A i \in 1..Len(s) : i <= Len(s) - 16 => s[i] = "0"

\* the 16-character lower-case zero-padded form of a well-formed numeral
RECURSIVE Canonical(_, _)
Canonical(s, i) ==
    IF i > 16 THEN ""
    ELSE (IF i <= 16 - Len(s) THEN "0"
          ELSE HexDigits[DigitValue(s[Len(s) - 16 + i]) + 1])
         \o Canonical(s, i + 1)

(* C14: after SetUpperFromHex(s) with s a well-formed numeral of u,         *)
(* UpperHex is the 16-character lower-case zero-padded form of u, Upper()   *)
(* is u and the lower half is unchanged; on a malformed string the call     *)
(* returns an error and leaves the identifier unchanged.                    *)
C14_UpperHexRoundTrip ==
    got.op = "SetUpperFromHex" =>
        IF WellFormed(got.arg)
        THEN /\ ~got.err
             /\ UpperHex(tid) = Canonical(got.arg, 1)
             /\ Upper(tid) = ParseUint(got.arg).u
             /\ HexEncodeToString(PutUint64(Upper(tid))) = Canonical(got.arg, 1)
             /\ Lower(tid) = Lower(got.before)
        ELSE got.err /\ tid = got.before

C14_Witness ==
    /\ got.op = "SetUpperFromHex"
    /\ got.arg = <<"1", "a", "B">>
    /\ Lower(tid) # Zero64
    /\ UpperHex(tid) = "00000000000001ab"

(* C15 as stated: HasUpper is false exactly when no setter (SetLower,       *)
(* SetUpper, SetUpperFromHex) was ever called with a value that is not zero.*)
C15_AsStated == (~HasUpper(tid)) <=> ~got.everNonZero

(* C15, amended: HasUpper is false exactly when the upper half was never    *)
(* set or the last successful SetUpper or SetUpperFromHex call set it to    *)
(* zero; SetLower and a failed SetUpperFromHex leave HasUpper as it is.     *)
C15_HasUpperIffUpperSet == HasUpper(tid) <=> got.upper # Zero64

C15_Witness ==
    /\ got.op = "SetLower" /\ got.arg # Zero64
    /\ Lower(tid) # Zero64
    /\ got.upper = Zero64
    /\ ~HasUpper(tid)
    /\ got.everNonZero

----------------------------------------------------------------------------
(* setPeerService on the tags of one span *)

\* a tag that is absent or has one of the values vals
Opt(k, vals) == {EmptyMap} \cup {k :> v : v \in vals}

ContactPoints == "10.0.0.1,10.0.0.2"

PeerMetas ==
    {kind @@ sys @@ cp @@ dn @@ ph @@ oh @@ ps @@ aws @@ db :
        kind \in Opt(SpanKind, {SpanKindClient, SpanKindProducer, "server"}),
        sys \in Opt(DBSystem, {DBSystemCassandra, "postgres"}),
        cp \in Opt(CassandraContactPoints, {ContactPoints}),
        dn \in Opt(NetworkDestinationName, {"dst"}),
        ph \in Opt(PeerHostname, {"broker"}),
        oh \in Opt(TargetHost, {"db-host"}),
        ps \in Opt(PeerService, {"billing"}),
        aws \in Opt("aws_service", {"s3"}),
        db \in Opt(DBName, {"users"})}

\* the peerServiceMappings of the configuration
MappingSets ==
    {EmptyMap, PeerServiceMappings, ContactPoints :> "cassandra-cluster",
     PeerServiceMappings @@ ("billing-v2" :> "billing-v3") @@ ("dst" :> "billing")}

InitPeer ==
    /\ IdleTrace
    /\ parent = NoBaggage /\ child = NilPtr /\ born = NilPtr /\ recv = NilPtr
    /\ tid = <<>>
    /\ smeta \in PeerMetas
    /\ got = [op |-> "none"]

\* one call of setPeerService on the span
CallSetPeerService(peerServiceDefaults, peerServiceMappings) ==
    /\ got.op = "none"
    /\ smeta' = setPeerService(smeta, peerServiceDefaults, peerServiceMappings)
    /\ got' = [op |-> "setPeerService", before |-> smeta,
               peerServiceDefaults |-> peerServiceDefaults,
               peerServiceMappings |-> peerServiceMappings]
    /\ UNCHANGED <<parent, child, born, recv, tid, idleVars>>

NextPeer ==
    \E d \in BOOLEAN, mp \in MappingSets : CallSetPeerService(d, mp)

SpecPeer == InitPeer /\ [][NextPeer]_vars

\* setPeerService has run on an outbound cassandra span without
\* peer.service and aws_service, with the defaults enabled
CassandraCase ==
    /\ got.op = "setPeerService"
    /\ got.peerServiceDefaults
    /\ has(got.before, SpanKind)
    /\ got.before[SpanKind] \in {SpanKindClient, SpanKindProducer}
    /\ ~has(got.before, PeerService)
    /\ ~has(got.before, "aws_service")
    /\ has(got.before, DBSystem) /\ got.before[DBSystem] = DBSystemCassandra

(* C16 as stated: in the cassandra case peer.service becomes the value of   *)
(* db.cassandra.contact.points, with that tag as provenance, when the tag   *)
(* is present; without it peer.service is not set, whatever network tags    *)
(* the span has.                                                            *)
C16_AsStated ==
    CassandraCase =>
        IF has(got.before, CassandraContactPoints)
        THEN /\ has(smeta, PeerService)
             /\ smeta[PeerService] = got.before[CassandraContactPoints]
             /\ has(smeta, keyPeerServiceSource)
             /\ smeta[keyPeerServiceSource] = CassandraContactPoints
        ELSE ~has(smeta, PeerService)

(* C16, amended: as stated, but when the value of the contact points is a   *)
(* key of peerServiceMappings, peer.service becomes the mapped value and    *)
(* _dd.peer.service.remapped_from holds the value of the contact points.    *)
C16_Cassandra ==
    CassandraCase =>
        IF has(got.before, CassandraContactPoints)
        THEN LET v == got.before[CassandraContactPoints]
                 mp == got.peerServiceMappings
             IN  /\ has(smeta, PeerService)
                 /\ has(smeta, keyPeerServiceSource)
                 /\ smeta[keyPeerServiceSource] = CassandraContactPoints
                 /\ IF has(mp, v)
                    THEN /\ smeta[PeerService] = mp[v]
                         /\ has(smeta, keyPeerServiceRemappedFrom)
                         /\ smeta[keyPeerServiceRemappedFrom] = v
                    ELSE /\ smeta[PeerService] = v
                         /\ ~has(smeta, keyPeerServiceRemappedFrom)
        ELSE smeta = got.before

C16_Witness ==
    /\ CassandraCase
    /\ ~has(got.before, CassandraContactPoints)
    /\ has(got.before, NetworkDestinationName)
    /\ has(got.before, PeerHostname)
    /\ has(got.before, TargetHost)
    /\ ~has(smeta, PeerService)

----------------------------------------------------------------------------
(* A trace buffer adopted by FromGenericCtx: the priority and the           *)
(* propagating tags are those of the converted context.                     *)

AdoptedPriorities == {-1, 0, 1, 2}
AdoptedPropagatingTags ==
    {EmptyMap} \cup {keyDecisionMaker :> samplerToDM(sm) : sm \in {AgentRate, RuleRate}}

InitAdopted ==
    /\ tr = "tracer"
    /\ tc = [PartialFlush |-> FALSE, PartialFlushMinSpans |-> MaxMinSpans]
    /\ traceMaxSize = MaxSpans
    /\ exists = TRUE /\ traceUpper = ZeroUpper
    /\ spans = <<>> /\ finished = 0 /\ full = FALSE
    /\ locked = FALSE /\ root = NoSpan
    /\ samplingDecision \in {decisionNone, decisionDrop, decisionKeep}
    /\ tags \in {EmptyMap} \cup {k :> v : k \in TagKeys, v \in TagVals}
    /\ priority \in {NilPtr} \cup {Ptr(p) : p \in AdoptedPriorities}
    /\ propagatingTags \in AdoptedPropagatingTags
    /\ pc = [s \in SpanIds |-> "idle"]
    /\ spanFinished = [s \in SpanIds |-> FALSE]
    /\ metrics = [s \in SpanIds |-> NilPtr]
    /\ meta = [s \in SpanIds |-> SpanMeta(s)]
    /\ tagged = [s \in SpanIds |-> NilPtr]
    /\ chunks = <<>>
    /\ last = Returned
    /\ InitCtx

NextAdopted ==
    \/ \E p \in AdoptedPriorities, sampler \in SamplerNames : SetSamplingPriority(p, sampler)
    \/ \E b \in BOOLEAN : SetLocked(b)

SpecAdopted == InitAdopted /\ [][NextAdopted]_vars

\* the decision-maker propagating tag: NilPtr when absent
DecisionMaker(pt) ==
    IF has(pt, keyDecisionMaker) THEN Ptr(pt[keyDecisionMaker]) ELSE NilPtr

(* C17: on an unlocked buffer setSamplingPriority returns true if and only  *)
(* if the call changed the stored priority or added, changed or removed     *)
(* the decision-maker propagating tag.                                      *)
C17_ReportsChange ==
    [][(~locked /\ last'.op = "setSamplingPriority") =>
        (last'.ret <=> (\/ priority' # priority
                        \/ DecisionMaker(propagatingTags')
                             # DecisionMaker(propagatingTags)))]_vars

(* C18: after setSamplingPriority(p, sampler) on an unlocked buffer the     *)
(* stored priority is p, and the decision-maker tag is "-" and the sampler  *)
(* id when p > 0 and the sampler is not Unknown, absent when p <= 0, and    *)
(* as before the call when p > 0 and the sampler is Unknown.                *)
C18_PriorityAndDecisionMaker ==
    [][\A p \in AdoptedPriorities, sampler \in SamplerNames :
        (~locked /\ SetSamplingPriority(p, sampler)) =>
            /\ priority' = Ptr(p)
            /\ DecisionMaker(propagatingTags') =
                  IF p <= 0 THEN NilPtr
                  ELSE IF sampler = Unknown THEN DecisionMaker(propagatingTags)
                  ELSE Ptr("-" \o Itoa(sampler))
            /\ \A k \in DOMAIN propagatingTags \ {keyDecisionMaker} :
                  has(propagatingTags', k) /\ propagatingTags'[k] = propagatingTags[k]]_vars

C18_Witness ==
    /\ last.op = "setSamplingPriority"
    /\ ~last.ret
    /\ ~locked
    /\ priority = Ptr(2)
    /\ DecisionMaker(propagatingTags) = Ptr("-3")

(* C19: a push onto a buffer that is neither full nor at capacity appends  *)
(* the span; a span with a sampling-priority metric v sets the stored       *)
(* priority to v when the buffer is unlocked and leaves it when locked, and *)
(* the decision-maker tag is kept as it is or, when v <= 0 on an unlocked   *)
(* buffer, removed; a span without the metric leaves priority and           *)
(* propagating tags unchanged.                                              *)
C19_PushPriority ==
    [][\A sp \in SpanIds :
        (PushStep(sp) /\ ~full /\ Len(spans) < traceMaxSize) =>
            /\ spans' = Append(spans, sp)
            /\ IF metrics'[sp] = NilPtr
               THEN priority' = priority /\ propagatingTags' = propagatingTags
               ELSE /\ priority' = IF locked THEN priority ELSE metrics'[sp]
                    /\ locked => propagatingTags' = propagatingTags
                    /\ \/ DecisionMaker(propagatingTags') = DecisionMaker(propagatingTags)
                       \/ /\ DecisionMaker(propagatingTags') = NilPtr
                          /\ Deref(metrics'[sp]) <= 0]_vars

C19_Witness ==
    /\ locked
    /\ pc[2] = "pushed" /\ ~spanFinished[2] /\ metrics[2] = Ptr(0)
    /\ 2 \in Range(spans)
    /\ priority = Ptr(1)
    /\ DecisionMaker(propagatingTags) # NilPtr

(* C20: the willSend flag of a submitted chunk is true exactly when the     *)
(* sampling decision is keep at the step that builds the chunk; keep and    *)
(* drop calls after that step do not change the chunk.                      *)
C20_WillSend ==
    [][/\ chunks' # chunks =>
            /\ Len(chunks') = Len(chunks) + 1
            /\ NewChunk.willSend = (samplingDecision = decisionKeep)
       /\ \A i \in 1..Len(chunks) : chunks'[i] = chunks[i]]_vars

C20_Witness ==
    /\ Len(chunks) >= 2
    /\ ~chunks[1].willSend
    /\ chunks[2].willSend
    /\ samplingDecision = decisionKeep

(* C21: as stated, for every tracer: a finish that leaves a buffered span   *)
(* unfinished, with partial flush disabled or the finished counter below    *)
(* the minimum, submits no chunk and keeps the span collection; a finish    *)
(* that leaves every buffered span finished submits one chunk with all      *)
(* buffered spans and empties the collection.                               *)
C21_AsStated ==
    [][\A s \in SpanIds : FinishStep(s) =>
          IF \A x \in Range(spans) : spanFinished'[x]
          THEN SubmitsOne(spans) /\ spans' = <<>>
          ELSE (~tc.PartialFlush \/ finished + 1 < tc.PartialFlushMinSpans) =>
                  chunks' = chunks /\ spans' = spans]_vars

(* C21: with a *tracer installed and a buffer that has not overflowed, a    *)
(* finish that leaves a buffered span unfinished, with partial flush        *)
(* disabled or the incremented finished counter below the minimum, submits  *)
(* no chunk and keeps the span collection; a finish that leaves every       *)
(* buffered span finished submits exactly one chunk holding the whole       *)
(* buffer and empties it, also when partial flush is enabled and the        *)
(* counter has reached the minimum.                                         *)
C21_FullBeforePartial ==
    [][\A s \in SpanIds : (FinishStep(s) /\ tr = "tracer" /\ ~full) =>
          IF \A x \in Range(spans) : spanFinished'[x]
          THEN SubmitsOne(spans) /\ spans' = <<>> /\ ~last'.panicked
          ELSE (~tc.PartialFlush \/ finished + 1 < tc.PartialFlushMinSpans) =>
                  chunks' = chunks /\ spans' = spans]_vars

\* partial flush enabled with a minimum of 2: the first finish stayed below the
\* minimum, the second reached it and flushed the whole buffer in one chunk
C21_Witness ==
    /\ tr = "tracer" /\ ~full
    /\ tc.PartialFlush /\ tc.PartialFlushMinSpans = 2
    /\ Len(chunks) = 1 /\ Len(chunks[1].spans) = 2
    /\ spans = <<>>
    /\ priority = NilPtr

(* C22: the root of a trace buffer is assigned once and never changes, and  *)
(* it is the span pushed first into the buffer, also when several           *)
(* constructors run concurrently on a buffer that has no root yet.          *)
C22_RootAssignedOnce ==
    [][/\ root # NoSpan => root' = root
       /\ \A sp \in SpanIds : (PushStep(sp) /\ Pushed = {}) => root' = sp]_vars

----------------------------------------------------------------------------
(* Construction of span contexts.  The trace buffers live in heap, a        *)
(* pointer to a buffer is its index there and 0 is the nil pointer.         *)

\* the most span contexts made in one behaviour
MaxCtx == 3

\* the record newTrace returns
newTraceRec ==
    [spans |-> <<>>, tags |-> EmptyMap, propagatingTags |-> EmptyMap, finished |-> 0,
     full |-> FALSE, priority |-> NilPtr, locked |-> FALSE,
     samplingDecision |-> decisionNone, root |-> NoSpan]

\* the zero SpanContext
zeroCtx ==
    [spanID |-> Zero64, span |-> NoSpan, traceID |-> emptyTraceID, trace |-> 0,
     origin |-> "", baggage |-> NilPtr, hasBaggage |-> 0, baggageOnly |-> FALSE]

\* the contexts handed to FromGenericCtx: trace id, span id, baggage items
\* and, with the extended capability (adapter # NilPtr), what Origin,
\* Priority, SamplingDecision, Tags and PropagatingTags return
RemoteUpper == <<18, 52, 86, 120, 154, 188, 222, 240>>
Adapters ==
    {NilPtr,
     Ptr([origin |-> "", priority |-> NilPtr, samplingDecision |-> decisionNone,
          tags |-> EmptyMap, propagatingTags |-> EmptyMap]),
     Ptr([origin |-> "synthetics", priority |-> Ptr(2), samplingDecision |-> decisionKeep,
          tags |-> ("hostname" :> "h1"), propagatingTags |-> (keyDecisionMaker :> "-4")])}
GenericCtxs ==
    [traceID : {ZeroUpper \o LowerBytes, RemoteUpper \o LowerBytes},
     spanID : {<<0, 0, 0, 7>>},
     items : {EmptyMap, "a" :> "1"},
     adapter : Adapters]

\* FromGenericCtx: the context it returns and the heap after the call
FromGenericCtxOf(c) ==
    LET b == FromGenericCtx(c.items)
        sc == [zeroCtx EXCEPT !.traceID = c.traceID, !.spanID = c.spanID,
                              !.baggage = b.baggage, !.hasBaggage = b.hasBaggage]
        a == Deref(c.adapter)
    IN  IF c.adapter = NilPtr
        THEN [ctx |-> sc, heap |-> heap]
        ELSE [ctx |-> [sc EXCEPT !.origin = a.origin, !.trace = Len(heap) + 1],
              heap |-> Append(heap,
                         [newTraceRec EXCEPT !.priority = a.priority,
                                             !.samplingDecision = a.samplingDecision,
                                             !.tags = a.tags,
                                             !.propagatingTags = a.propagatingTags])]

\* a context that carries baggage only, as a baggage propagator extracts it:
\* the items are set one by one on a zero context and the flag is raised.
\* Its other fields are not read by newSpanContext; they are drawn from
\* what a context can hold.
RECURSIVE setBaggageItems(_, _)
setBaggageItems(c, items) ==
    IF items = EmptyMap THEN c
    ELSE LET k == CHOOSE x \in DOMAIN items : TRUE
         IN  setBaggageItems(setBaggageItem(c, k, items[k]), deleteKey(items, k))

BaggageOnlyCtxs ==
    {[setBaggageItems(zeroCtx, items) EXCEPT !.baggageOnly = TRUE, !.traceID = t,
                                                !.origin = o] :
        items \in {"a" :> "1", ("a" :> "2") @@ ("b" :> "1")},
        t \in {emptyTraceID, RemoteUpper \o LowerBytes},
        o \in {"", "synthetics"}}

\* the spans handed to newSpanContext: span.spanID, span.traceID and
\* span.start, the latter as whole seconds (a 64-bit value) and the
\* nanoseconds left over
SpanID64(sp) == <<0, 0, 0, sp>>
SpanTraceIDs == {<<0, 0, 48, 57>>}
StartTimes ==
    {[sec |-> <<0, 0, 25930, 6956>>, nsec |-> 5],
     [sec |-> <<0, 1, 3, 4>>, nsec |-> 999999999]}

\* time.Duration(span.start) / time.Second
Seconds(start) == start.sec
\* uint64(uint32(x)) << 32
Uint32Shl32(x) == <<x[3], x[4], 0, 0>>

\* trace.push of a span that carries no sampling-priority metric, on the
\* buffer record t
pushRec(t, sp) ==
    IF t.full THEN t
    ELSE IF Len(t.spans) >= traceMaxSize THEN [t EXCEPT !.full = TRUE, !.spans = <<>>]
    ELSE [t EXCEPT !.spans = Append(t.spans, sp)]

\* newSpanContext that does not look at the parent's baggageOnly flag
newContext_InheritAlways(sp, tl, start, p, gen) ==
    LET c0 == [zeroCtx EXCEPT !.spanID = SpanID64(sp), !.span = sp,
                              !.traceID = SetLower(emptyTraceID, tl)]
        par == Deref(p)
        c1 == IF p # NilPtr
              THEN [c0 EXCEPT !.traceID = SetUpper(c0.traceID, Upper(par.traceID)),
                              !.trace = par.trace,
                              !.origin = par.origin]
              ELSE IF gen
              THEN [c0 EXCEPT !.traceID = SetUpper(c0.traceID, Uint32Shl32(Seconds(start)))]
              ELSE c0
        b == IF p # NilPtr THEN newSpanContextBaggage(par) ELSE NoBaggage
    IN  [c1 EXCEPT !.baggage = b.baggage, !.hasBaggage = b.hasBaggage]

\* newSpanContext, lines 160-189: the context before the root check, for
\* span sp with trace id tl started at start, parent p (NilPtr or Ptr of a
\* context) and gen the value of DD_TRACE_128_BIT_TRACEID_GENERATION_ENABLED
newContext(sp, tl, start, p, gen) ==
    LET c0 == [zeroCtx EXCEPT !.spanID = SpanID64(sp), !.span = sp,
                              !.traceID = SetLower(emptyTraceID, tl)]
        par == Deref(p)
        c1 == IF p # NilPtr /\ ~par.baggageOnly
              THEN [c0 EXCEPT !.traceID = SetUpper(c0.traceID, Upper(par.traceID)),
                              !.trace = par.trace,
                              !.origin = par.origin]
              ELSE IF p = NilPtr /\ gen
              THEN [c0 EXCEPT !.traceID = SetUpper(c0.traceID, Uint32Shl32(Seconds(start)))]
              ELSE c0
        b == IF p # NilPtr THEN newSpanContextBaggage(par) ELSE NoBaggage
    IN  [c1 EXCEPT !.baggage = b.baggage, !.hasBaggage = b.hasBaggage]

\* pc of a context: "done" once its constructor has returned, "sawNil"
\* between the read of a nil root (line 190) and the write of line 192,
\* "ready" between that write and the push of line 195.
\* made records the call that made the context.
CallFromGenericCtx(c) ==
    /\ Len(ctxs) < MaxCtx
    /\ LET r == FromGenericCtxOf(c)
       IN  /\ heap' = r.heap
           /\ ctxs' = Append(ctxs, [ctx |-> r.ctx, pc |-> "done",
                                    made |-> [by |-> "FromGenericCtx", src |-> c]])
    /\ UNCHANGED <<parent, child, born, recv, got, tid, smeta, bufferVars>>

Extract(c) ==
    /\ Len(ctxs) < MaxCtx
    /\ ctxs' = Append(ctxs, [ctx |-> c, pc |-> "done", made |-> [by |-> "Extract"]])
    /\ UNCHANGED <<heap, parent, child, born, recv, got, tid, smeta, bufferVars>>

\* the spans that have a context
Started == {ctxs[i].ctx.span : i \in 1..Len(ctxs)}

\* newSpanContext up to the read of the root at line 190 and, unless the
\* buffer is shared and the root was read as nil, to its end
NewSpanContext(sp, tl, start, pi, gen) ==
    /\ Len(ctxs) < MaxCtx
    /\ sp \notin Started
    /\ pi # 0 => ctxs[pi].pc = "done"
    /\ LET p == IF pi = 0 THEN NilPtr ELSE Ptr(ctxs[pi].ctx)
           c1 == newContext(sp, tl, start, p, gen)
           fresh == c1.trace = 0
           heap1 == IF fresh THEN Append(heap, newTraceRec) ELSE heap
           c2 == IF fresh THEN [c1 EXCEPT !.trace = Len(heap1)] ELSE c1
           t == heap1[c2.trace]
           sawNil == t.root = NoSpan
           t1 == IF sawNil THEN [t EXCEPT !.root = sp] ELSE t
           how == [by |-> "newSpanContext", parent |-> p, gen |-> gen, start |-> start,
                   fresh |-> fresh]
       IN  IF sawNil /\ ~fresh
           THEN /\ heap' = heap1
                /\ ctxs' = Append(ctxs, [ctx |-> c2, pc |-> "sawNil", made |-> how])
           ELSE /\ heap' = [heap1 EXCEPT ![c2.trace] = pushRec(t1, sp)]
                /\ ctxs' = Append(ctxs, [ctx |-> c2, pc |-> "done", made |-> how])
    /\ UNCHANGED <<parent, child, born, recv, got, tid, smeta, bufferVars>>

\* newSpanContext, line 192, of a constructor that read a nil root
SetRoot(i) ==
    /\ ctxs[i].pc = "sawNil"
    /\ heap' = [heap EXCEPT ![ctxs[i].ctx.trace].root = ctxs[i].ctx.span]
    /\ ctxs' = [ctxs EXCEPT ![i].pc = "ready"]
    /\ UNCHANGED <<parent, child, born, recv, got, tid, smeta, bufferVars>>

\* newSpanContext, line 195, after the write of the root
PushContext(i) ==
    /\ ctxs[i].pc = "ready"
    /\ heap' = [heap EXCEPT ![ctxs[i].ctx.trace] = pushRec(@, ctxs[i].ctx.span)]
    /\ ctxs' = [ctxs EXCEPT ![i].pc = "done"]
    /\ UNCHANGED <<parent, child, born, recv, got, tid, smeta, bufferVars>>

NextContext ==
    \/ \E c \in GenericCtxs : CallFromGenericCtx(c)
    \/ \E c \in BaggageOnlyCtxs : Extract(c)
    \/ \E sp \in SpanIds, tl \in SpanTraceIDs, start \in StartTimes,
          pi \in 0..Len(ctxs), gen \in BOOLEAN : NewSpanContext(sp, tl, start, pi, gen)
    \/ \E i \in 1..Len(ctxs) : SetRoot(i)
    \/ \E i \in 1..Len(ctxs) : PushContext(i)

InitContext ==
    /\ IdleTrace
    /\ parent = NoBaggage /\ child = NilPtr /\ born = NilPtr
    /\ recv = NilPtr
    /\ got = [op |-> "none"]
    /\ tid = <<>>
    /\ smeta = EmptyMap

SpecContext == InitContext /\ [][NextContext]_vars

\* the contexts newSpanContext has made
Constructed == {i \in 1..Len(ctxs) : ctxs[i].made.by = "newSpanContext"}

\* no context made before context i points to the buffer of context i
FreshBuffer(i) == \A j \in 1..(i - 1) : ctxs[j].ctx.trace # ctxs[i].ctx.trace

(* C23: a context made by newSpanContext from a parent that is not nil and  *)
(* not baggage-only has the parent's upper trace-id half and origin and,    *)
(* when the parent has a buffer, that same buffer, which holds the span     *)
(* once the constructor has returned.  With a nil or baggage-only parent    *)
(* the buffer is new, its root and first span is the new span; with a       *)
(* baggage-only parent the upper half stays zero, the origin empty, and the *)
(* context holds exactly the parent's baggage items.                        *)
C23_Linkage ==
    \A i \in Constructed :
        LET c == ctxs[i].ctx
            p == ctxs[i].made.parent
            par == Deref(p)
            t == heap[c.trace]
        IN  /\ c.trace \in 1..Len(heap)
            /\ ctxs[i].pc = "done" => c.span \in Range(t.spans)
            /\ IF p # NilPtr /\ ~par.baggageOnly
               THEN /\ Upper(c.traceID) = Upper(par.traceID)
                    /\ c.origin = par.origin
                    /\ IF par.trace # 0 THEN c.trace = par.trace ELSE FreshBuffer(i)
               ELSE /\ FreshBuffer(i)
                    /\ ctxs[i].pc = "done"
                    /\ t.root = c.span
                    /\ t.spans[1] = c.span
            /\ (p # NilPtr /\ par.baggageOnly) =>
                    /\ Upper(c.traceID) = Zero64
                    /\ c.origin = ""
                    /\ c.trace # par.trace
                    /\ Items(c) = Items(par)
                    /\ ForeachBaggageItem(c) = Items(par)

\* a child of a baggage-only parent that has a remote trace id, an origin
\* and two baggage items, and a child of that child
C23_Witness ==
    \E i, j \in Constructed :
        /\ ctxs[i].made.parent # NilPtr
        /\ Deref(ctxs[i].made.parent).baggageOnly
        /\ Deref(ctxs[i].made.parent).origin = "synthetics"
        /\ Upper(Deref(ctxs[i].made.parent).traceID) # Zero64
        /\ Items(ctxs[i].ctx) = ("a" :> "2") @@ ("b" :> "1")
        /\ ctxs[j].made.parent = Ptr(ctxs[i].ctx)
        /\ heap[ctxs[j].ctx.trace].spans = <<ctxs[i].ctx.span, ctxs[j].ctx.span>>

(* C24: a context made by newSpanContext with no parent or with a           *)
(* baggage-only parent has, when 128-bit generation is enabled, an upper    *)
(* trace-id half whose high 32 bits are the start time in whole seconds     *)
(* modulo 2^32 and whose low 32 bits are zero, and a zero upper half when   *)
(* generation is disabled.                                                  *)
C24_GeneratedUpper ==
    \A i \in Constructed :
        LET c == ctxs[i].ctx
            how == ctxs[i].made
        IN  (how.parent = NilPtr \/ Deref(how.parent).baggageOnly) =>
                Upper(c.traceID) =
                    IF how.gen THEN <<how.start.sec[3], how.start.sec[4], 0, 0>> ELSE Zero64

\* SpanContext.baggageItem
baggageItem(c, key) ==
    IF c.hasBaggage = 0 THEN ""
    ELSE IF has(Items(c), key) THEN Items(c)[key] ELSE ""

(* C25: on every span context, converted by FromGenericCtx or made by       *)
(* newSpanContext, the has-baggage flag is non-zero whenever the baggage    *)
(* map holds an item, so that baggageItem returns each item that was set    *)
(* and ForeachBaggageItem visits it.                                        *)
C25_FlagAgreesWithMap ==
    \A c \in {parent} \cup (IF child = NilPtr THEN {} ELSE {Deref(child)}) :
        \A k \in DOMAIN Items(c) :
            /\ c.hasBaggage # 0
            /\ baggageItem(c, k) = Items(c)[k]
            /\ ForeachBaggageItem(c) = Items(c)

----------------------------------------------------------------------------
(* More properties of setPeerService, under SpecPeer *)

\* setPeerService has run
PeerServiceCalled == got.op = "setPeerService"

(* C26: when the span has a peer.service tag before setPeerService runs,    *)
(* the provenance tag becomes "peer.service" and no other tag changes,      *)
(* unless the value is a key of peerServiceMappings; this for every span    *)
(* kind and with the defaults enabled or disabled.                          *)
C26_ExistingPeerService ==
    (PeerServiceCalled /\ has(got.before, PeerService)) =>
        /\ has(smeta, keyPeerServiceSource)
        /\ smeta[keyPeerServiceSource] = PeerService
        /\ ~has(got.peerServiceMappings, got.before[PeerService]) =>
              /\ smeta[PeerService] = got.before[PeerService]
              /\ DOMAIN smeta = DOMAIN got.before \cup {keyPeerServiceSource}
              /\ \A k \in DOMAIN got.before : smeta[k] = got.before[k]

\* a server span with peer.service and with source tags, defaults disabled
C26_Witness ==
    /\ PeerServiceCalled
    /\ ~got.peerServiceDefaults
    /\ has(got.before, SpanKind) /\ got.before[SpanKind] = "server"
    /\ has(got.before, PeerService) /\ has(got.before, NetworkDestinationName)
    /\ has(got.before, "aws_service")
    /\ got.peerServiceMappings # EmptyMap
    /\ smeta[PeerService] = "billing"
    /\ smeta[keyPeerServiceSource] = PeerService

\* the candidate source tags of a span whose tags are m, in the order of the
\* families aws_service, cassandra, db.system, messaging.system, rpc.system
Candidates(m) ==
    LET net == <<"network.destination.name", "peer.hostname", "out.host">>
    IN  IF "aws_service" \in DOMAIN m
        THEN <<"queuename", "topicname", "streamname", "tablename", "bucketname">> \o net
        ELSE IF "db.system" \in DOMAIN m /\ m["db.system"] = "cassandra"
        THEN <<"db.cassandra.contact.points">>
        ELSE IF "db.system" \in DOMAIN m THEN <<"db.name", "db.instance">> \o net
        ELSE IF "messaging.system" \in DOMAIN m
        THEN <<"messaging.kafka.bootstrap.servers">> \o net
        ELSE IF "rpc.system" \in DOMAIN m THEN <<"rpc.service">> \o net
        ELSE net

\* the span is outbound: its kind is client or producer
Outbound(m) == has(m, SpanKind) /\ m[SpanKind] \in {SpanKindClient, SpanKindProducer}

(* C27: on a span without peer.service tag, setPeerService leaves every tag *)
(* of the span as it was when the span kind is neither client nor producer, *)
(* when the defaults are disabled, or when none of the candidate source     *)
(* tags is present.                                                         *)
C27_Untouched ==
    (/\ PeerServiceCalled
     /\ ~has(got.before, PeerService)
     /\ \/ ~Outbound(got.before)
        \/ ~got.peerServiceDefaults
        \/ \A i \in 1..Len(Candidates(got.before)) :
               ~has(got.before, Candidates(got.before)[i]))
    => smeta = got.before

\* an outbound cassandra span with network tags and the defaults enabled,
\* left untouched because its only candidate is absent; the table has
\* an entry for a network tag's value
C27_Witness ==
    /\ PeerServiceCalled
    /\ got.peerServiceDefaults
    /\ Outbound(got.before)
    /\ ~has(got.before, PeerService)
    /\ ~has(got.before, "aws_service")
    /\ has(got.before, DBSystem) /\ got.before[DBSystem] = DBSystemCassandra
    /\ ~has(got.before, CassandraContactPoints)
    /\ has(got.before, NetworkDestinationName)
    /\ has(got.peerServiceMappings, "dst")
    /\ smeta = got.before

\* the value setPeerService ends with before the remapping: the tag the
\* span had, or the value of the source that was resolved
Resolved ==
    IF has(got.before, PeerService) THEN Ptr(got.before[PeerService])
    ELSE IF has(smeta, keyPeerServiceSource) /\ has(got.before, smeta[keyPeerServiceSource])
    THEN Ptr(got.before[smeta[keyPeerServiceSource]])
    ELSE NilPtr

(* C29: when the peer.service value setPeerService ends with, pre-existing  *)
(* or resolved from a source, is a key of peerServiceMappings, peer.service *)
(* becomes the value mapped to that key and the remapped-from tag holds the *)
(* key; when it is no key, peer.service is that value and there is no       *)
(* remapped-from tag.  The mapped value is not looked up again.             *)
C29_RemapOnce ==
    (PeerServiceCalled /\ Resolved # NilPtr) =>
        LET v == Deref(Resolved)
            mp == got.peerServiceMappings
        IN  IF has(mp, v)
            THEN /\ smeta[PeerService] = mp[v]
                 /\ has(smeta, keyPeerServiceRemappedFrom)
                 /\ smeta[keyPeerServiceRemappedFrom] = v
            ELSE /\ smeta[PeerService] = v
                 /\ ~has(smeta, keyPeerServiceRemappedFrom)

\* the resolved value dst maps to billing, which is itself a key of the table
C29_Witness ==
    /\ PeerServiceCalled
    /\ ~has(got.before, PeerService)
    /\ Resolved = Ptr("dst")
    /\ has(got.peerServiceMappings, "billing")
    /\ smeta[PeerService] = "billing"
    /\ smeta[keyPeerServiceRemappedFrom] = "dst"
    /\ smeta[keyPeerServiceSource] = NetworkDestinationName

----------------------------------------------------------------------------
(* setPeerServiceFromSource on the tags of one span *)

SourceMetas ==
    {aws @@ sys @@ msg @@ rpc @@ q @@ b @@ cp @@ dbn @@ dbi @@ kf @@ rs @@ dn @@ ph @@ oh :
        aws \in Opt("aws_service", {"s3"}),
        sys \in Opt(DBSystem, {DBSystemCassandra, "postgres"}),
        msg \in Opt(MessagingSystem, {"kafka"}),
        rpc \in Opt(RPCSystem, {"grpc"}),
        q \in Opt("queuename", {"jobs"}),
        b \in Opt("bucketname", {"assets"}),
        cp \in Opt(CassandraContactPoints, {ContactPoints}),
        dbn \in Opt(DBName, {"users"}),
        dbi \in Opt(DBInstance, {"users-1"}),
        kf \in Opt(KafkaBootstrapServers, {"kafka:9092"}),
        rs \in Opt(RPCService, {"greeter"}),
        dn \in Opt(NetworkDestinationName, {"dst"}),
        ph \in Opt(PeerHostname, {"broker"}),
        oh \in Opt(TargetHost, {"db-host"})}

InitSource ==
    /\ IdleTrace
    /\ parent = NoBaggage /\ child = NilPtr /\ born = NilPtr /\ recv = NilPtr
    /\ tid = <<>>
    /\ smeta \in SourceMetas
    /\ got = [op |-> "none"]

\* one call of setPeerServiceFromSource on the span
CallSetPeerServiceFromSource ==
    /\ got.op = "none"
    /\ LET r == setPeerServiceFromSource(smeta)
       IN  /\ smeta' = r.meta
           /\ got' = [op |-> "setPeerServiceFromSource", before |-> smeta,
                      source |-> r.source]
    /\ UNCHANGED <<parent, child, born, recv, tid, idleVars>>

NextSource == CallSetPeerServiceFromSource

SpecSource == InitSource /\ [][NextSource]_vars

(* C28: setPeerServiceFromSource takes the candidates of the first family   *)
(* among aws_service, db.system = cassandra, db.system, messaging.system    *)
(* and rpc.system that the span matches, followed, except for cassandra, by *)
(* network.destination.name, peer.hostname and out.host (these three alone  *)
(* when no family matches); it sets peer.service to the value of the first  *)
(* candidate in that order that is a tag of the span, changes no other tag  *)
(* and returns that candidate's name; when none is a tag of the span it     *)
(* returns the empty string and changes nothing.                            *)
C28_FirstCandidate ==
    got.op = "setPeerServiceFromSource" =>
        LET before == got.before
            cs == Candidates(before)
            present == {i \in 1..Len(cs) : has(before, cs[i])}
        IN  IF present = {}
            THEN got.source = "" /\ smeta = before
            ELSE LET i == CHOOSE x \in present : \A y \in present : x <= y
                 IN  /\ got.source = cs[i]
                     /\ DOMAIN smeta = DOMAIN before \cup {PeerService}
                     /\ smeta[PeerService] = before[cs[i]]
                     /\ \A k \in DOMAIN before : smeta[k] = before[k]

\* the aws family decides although none of its own candidates is present:
\* the candidates of the later families are tags of the span and are not
\* taken, the second network candidate is
C28_Witness ==
    /\ got.op = "setPeerServiceFromSource"
    /\ has(got.before, "aws_service")
    /\ ~has(got.before, "queuename") /\ ~has(got.before, "bucketname")
    /\ has(got.before, DBSystem) /\ has(got.before, DBName)
    /\ has(got.before, RPCSystem) /\ has(got.before, RPCService)
    /\ ~has(got.before, NetworkDestinationName)
    /\ has(got.before, PeerHostname) /\ has(got.before, TargetHost)
    /\ got.source = PeerHostname
    /\ smeta[PeerService] = "broker"

\* the contexts FromGenericCtx has made
Adopted == {i \in 1..Len(ctxs) : ctxs[i].made.by = "FromGenericCtx"}

\* the contexts newSpanContext has made on the buffer of context i
OnBufferOf(i) == {j \in Constructed : ctxs[j].ctx.trace = ctxs[i].ctx.trace}

(* C30: a context made by FromGenericCtx has the trace id, the span id and  *)
(* the baggage items of its source.  It has a buffer exactly when the       *)
(* source has the extended capability; no earlier context points to that    *)
(* buffer, it holds the source's priority, sampling decision, trace tags    *)
(* and propagating tags, it has no spans and no root as long as no span was *)
(* constructed from the context, and the span constructed first is its root *)
(* once that span's constructor has returned.  Without the capability the   *)
(* context has no buffer and every span started from it has a new buffer.   *)
C30_Adoption ==
    \A i \in Adopted :
        LET c == ctxs[i].ctx
            src == ctxs[i].made.src
            a == Deref(src.adapter)
            t == heap[c.trace]
            on == OnBufferOf(i)
            first == CHOOSE j \in on : \A k \in on : j <= k
        IN  /\ c.traceID = src.traceID
            /\ c.spanID = src.spanID
            /\ Items(c) = src.items
            /\ c.trace # 0 <=> src.adapter # NilPtr
            /\ src.adapter # NilPtr =>
                  /\ FreshBuffer(i)
                  /\ t.priority = a.priority
                  /\ t.samplingDecision = a.samplingDecision
                  /\ t.tags = a.tags
                  /\ t.propagatingTags = a.propagatingTags
                  /\ on = {} => t.spans = <<>> /\ t.root = NoSpan
                  /\ (on # {} /\ ctxs[first].pc = "done") => t.root = ctxs[first].ctx.span
            /\ src.adapter = NilPtr =>
                  \A j \in Constructed : ctxs[j].made.parent = Ptr(c) => FreshBuffer(j)

----------------------------------------------------------------------------
(* Invariants of the trace buffer *)

(* C31: in every submitted chunk, setTraceTags has run on no span other     *)
(* than the first span of the chunk, for every finish order and every       *)
(* number of partial flushes.                                               *)
C31_OnlyFirstTagged ==
    \A i \in 1..Len(chunks) :
        \A j \in 2..Len(chunks[i].spans) : tagged[chunks[i].spans[j]] = NilPtr

\* two chunks; the first came from a partial flush whose first span was not
\* the first span of the buffer and was tagged at line 584
C31_Witness ==
    /\ tr = "tracer" /\ tc.PartialFlush
    /\ Len(chunks) = 2
    /\ chunks[1].spans = <<2, 3>>
    /\ chunks[2].spans = <<1>>
    /\ tagged[2] # NilPtr /\ tagged[1] # NilPtr /\ tagged[3] = NilPtr

----------------------------------------------------------------------------
(* SpanContext.SpanLinks.  A span link is a value; the slices that hold the *)
(* links share or do not share a backing array.                             *)

\* the most SpanLinks calls in one behaviour
MaxCalls == 3

Links == {"link1", "link2"}
LinkSeqs == {<<>>} \cup {<<a>> : a \in Links} \cup {<<a, b>> : a \in Links, b \in Links}

\* the elements of the slice sl
Contents(sl) == IF sl = 0 THEN <<>> ELSE arrays[sl]

linkIdle == <<tr, tc, traceMaxSize, exists, traceUpper, traceVars, spanVars, chunks, last,
              parent, child, born, tid, smeta, heap, ctxs>>

\* a span context whose spanLinks field is the nil slice, or a slice that
\* holds ls; links0 records the links the context was given
NewLinkedContext(ls, nilSlice) ==
    /\ recv = NilPtr /\ got.op = "none"
    /\ nilSlice => ls = <<>>
    /\ arrays' = IF nilSlice THEN arrays ELSE Append(arrays, ls)
    /\ recv' = Ptr([spanLinks |-> IF nilSlice THEN 0 ELSE Len(arrays) + 1, links0 |-> ls])
    /\ UNCHANGED <<got, linkIdle>>

\* SpanContext.SpanLinks, lines 244-248: c.spanLinks on a nil receiver is a
\* nil pointer dereference; otherwise make and copy give a slice with an
\* array of its own
CallSpanLinks ==
    /\ Len(arrays) < MaxCalls + 1
    /\ IF recv = NilPtr
       THEN /\ got' = [op |-> "SpanLinks", val |-> 0, panicked |-> TRUE]
            /\ UNCHANGED arrays
       ELSE /\ arrays' = Append(arrays, Contents(Deref(recv).spanLinks))
            /\ got' = [op |-> "SpanLinks", val |-> Len(arrays) + 1, panicked |-> FALSE]
    /\ UNCHANGED <<recv, linkIdle>>

\* the caller assigns element i of the slice SpanLinks returned last
WriteReturned(i, v) ==
    /\ got.op = "SpanLinks" /\ ~got.panicked
    /\ i \in 1..Len(Contents(got.val))
    /\ arrays' = [arrays EXCEPT ![got.val][i] = v]
    /\ UNCHANGED <<recv, got, linkIdle>>

NextLinks ==
    \/ \E ls \in LinkSeqs, nilSlice \in BOOLEAN : NewLinkedContext(ls, nilSlice)
    \/ CallSpanLinks
    \/ \E i \in 1..2, v \in Links : WriteReturned(i, v)

InitLinks ==
    /\ IdleTrace
    /\ parent = NoBaggage /\ child = NilPtr /\ born = NilPtr
    /\ recv = NilPtr
    /\ got = [op |-> "none"]
    /\ tid = <<>>
    /\ smeta = EmptyMap

SpecLinks == InitLinks /\ [][NextLinks]_vars

(* C32: SpanLinks does not fail; on a nil context it returns an empty       *)
(* sequence; on a non-nil context the links the context holds stay the      *)
(* links it was given, whatever the caller assigns to the elements of the   *)
(* sequences SpanLinks returned.                                            *)
C32_SpanLinks ==
    /\ got.op = "SpanLinks" =>
          /\ ~got.panicked
          /\ recv = NilPtr => Contents(got.val) = <<>>
    /\ recv # NilPtr => Contents(Deref(recv).spanLinks) = Deref(recv).links0

\* the buffered spans whose finished flag is set
FinishedBuffered == {i \in 1..Len(spans) : spanFinished[spans[i]]}

(* C33: with a *tracer installed and a buffer that is not full, the         *)
(* finished counter is the number of buffered spans whose finished flag is  *)
(* set, and so never exceeds the number of buffered spans.                  *)
C33_FinishedCount ==
    (tr = "tracer" /\ ~full) =>
        /\ finished = Cardinality(FinishedBuffered)
        /\ finished <= Len(spans)

\* after a flush, one of two buffered spans is finished
C33_Witness ==
    /\ tr = "tracer" /\ ~full
    /\ Len(chunks) = 1
    /\ Len(spans) = 2
    /\ finished = 1

(* C34: a trace buffer never holds more than traceMaxSize spans, and a     *)
(* buffer that is full holds none.                                          *)
C34_Capacity ==
    /\ Len(spans) <= traceMaxSize
    /\ full => spans = <<>>

\* a buffer refilled to its capacity after a flush, not yet overflowed
C34_Witness ==
    /\ ~full
    /\ Len(chunks) >= 1
    /\ Len(spans) = traceMaxSize

(* C35: willSend is monotonic over the chunks of a trace: every chunk       *)
(* submitted after a chunk with willSend = true has willSend = true too,    *)
(* whatever keep and drop calls and flushes come in between.                *)
C35_WillSendMonotonic ==
    \A i \in 1..Len(chunks) : \A j \in i..Len(chunks) :
        chunks[i].willSend => chunks[j].willSend

\* two chunks sent, a drop call refused after them, a span still to flush
C35_Witness ==
    /\ Len(chunks) = 2
    /\ chunks[1].willSend /\ chunks[2].willSend
    /\ last.op = "drop"
    /\ spans # <<>>

(* C36: on a buffer created by newTrace, after any setSamplingPriority     *)
(* calls, pushes with or without a priority metric, and finishes, the       *)
(* decision-maker propagating tag is present only if the stored priority is *)
(* set and strictly positive.                                               *)
C36_DecisionMakerNeedsPriority ==
    has(propagatingTags, keyDecisionMaker) =>
        (priority # NilPtr /\ Deref(priority) > 0)

\* a decision maker that reached a submitted span has since been deleted by
\* a call with a priority that is not positive
C36_Witness ==
    /\ last.op = "setSamplingPriority"
    /\ priority = Ptr(0)
    /\ ~has(propagatingTags, keyDecisionMaker)
    /\ Len(chunks) >= 1
    /\ has(meta[chunks[1].spans[1]], keyDecisionMaker)

====
